---- MODULE Spec2Model ----
(***************************************************************************)
(* A model of the claude-army daemon's concurrency core:                   *)
(*   - the permission broker (permission_server.py) with the daemon's      *)
(*     permission-notification loop and callback handler (daemon_core.py); *)
(*   - the operator start-up with its init-turn drain (daemon_core.py);    *)
(*   - the process supervisor and the agent processes                      *)
(*     (process_manager.py, claude_process.py).                            *)
(* OS threads (HTTP handlers) interleave at every step that is not under   *)
(* the broker's lock; coroutines interleave at their await points.         *)
(***************************************************************************)
EXTENDS Integers, Sequences, FiniteSets, TLC

(***************************************************************************)
(* Bounds of the model                                                     *)
(***************************************************************************)
MaxResponds == 2        \* respond() calls issued in one run
MaxDupSignals == 1      \* extra _signal_new_request calls by racing producers
MaxSends == 1           \* user texts routed in one run
MaxEvents == 3          \* stdout lines the children write in one run
MaxSpawns == 2          \* spawn_process / resume_process calls in one run
MaxCleanups == 1        \* cleanup_crashed_processes calls in one run
MaxPauses == 1          \* pause_task_async calls in one run
MaxCreates == 1         \* spawn_worktree_task_async / spawn_session_async calls in one run
MaxWrites == 2          \* _write_json calls in one run
MaxReads == 2           \* _read_json calls in one run
MaxLockCalls == 3       \* respond / register_telegram_msg / get_pending calls in one run
MaxProcs == 2           \* child processes created for one task name in one run
MaxTerminates == 3      \* stop() calls on processes that have no subprocess
MaxUpdates == 3         \* updates the chat server receives
MaxCrashes == 2         \* stops or crashes of the daemon while it polls

(***************************************************************************)
(* Values                                                                  *)
(***************************************************************************)
ToolIds == {"T1", "T2"}                 \* tool_use_id values of the requests
ToolNames == {"Read", "Bash"}           \* one auto-allowed, one interactive
Sessions == {"S1", "S9"}                \* S9: a session no registry row knows
Decisions == {"allow", "deny"}
Responders == {"r1", "r2"}              \* threads that may call respond()

\* PermissionManager.auto_allow
auto_allow == {"Read", "Grep", "Glob", "TodoRead", "TodoWrite"}

\* PendingPermission.telegram_msg_id = None
NoMsgId == 0

NoResult == << >>
TimeoutResult == <<"deny", "Permission request timed out">>
\* the auto-allow branch returns deny
AutoResultDeny(tool_name) == <<"deny", "Auto-allowed: " \o tool_name>>
\* line 89: return ("allow", f"Auto-allowed: {tool_name}")
AutoResult(tool_name) == <<"allow", "Auto-allowed: " \o tool_name>>

\* Daemon._handle_callback: the reason it passes to respond()
CallbackReason(action) == IF action = "allow" THEN "User decision" ELSE "User denied"

VARIABLES
    \* ---- permission broker ----
    loop,               \* PermissionManager._loop is set
    serving,            \* the HTTP server thread has been started
    pending,            \* PermissionManager.pending: tool_use_id -> PendingPermission
    msg_to_tool,        \* PermissionManager._msg_to_tool: msg_id -> tool_use_id
    response_queue,     \* PendingPermission.response_queue, per request object
    notification_queue, \* PermissionManager._notification_queue
    reqPc,              \* position of the HTTP thread running request_permission(id)
    wake,               \* how that thread left the blocking get: none/response/timeout
    result,             \* the (decision, reason) the thread returns
    respPc,             \* position of each thread running respond()
    respLog,            \* per id, the values respond(id) returned, in lookup order
    respHist,           \* per id, every reply put into its slot, in order
    nResponds,          \* respond() calls issued so far
    nDupSignals,        \* extra signals issued so far
    notif,              \* position of the permission-notification loop
    notifLast,          \* how the loop's last notification ended
    prompts,            \* per id, prompts posted to the chat frontend
    nextMsgId,          \* next message id the chat frontend hands out
    \* ---- registry ----
    registry,           \* task name -> row
    \* ---- process supervisor and agent processes ----
    processes,          \* ProcessManager.processes: task name -> process object
    event_tasks,        \* ProcessManager._event_tasks: task name -> monitored object
    monitors,           \* process objects whose event_monitor task is still running
    mgr_queue,          \* ProcessManager._event_queue: (task_name, event)
    proc,               \* the ClaudeProcess objects created so far
    nProcs,             \* per task name, the objects created so far
    emitted,            \* per task name, the stdout lines written so far
    delivered,          \* per task name, the events all_events() has yielded
    sender,             \* position of the incoming-message loop's router
    sendLog,            \* the send_to_process calls that have returned
    nSends,             \* user texts routed so far
    opPc,               \* position of Daemon._spawn_operator
    opDrain,            \* how the init-turn drain ended
    \* ---- callers of the supervisor's other operations ----
    spawner,            \* position of the caller of spawn_process / resume_process
    spawnLog,           \* the spawn_process / resume_process calls that have ended
    nSpawns,            \* spawn_process / resume_process calls issued so far
    shutdown,           \* ProcessManager._shutdown
    aeDone,             \* the all_events() generator has terminated
    yieldsAfter,        \* events all_events() has yielded since _shutdown was set
    stopAll,            \* position of stop_all: idle / running / done
    stopPc,             \* per task name, position of its stop_process call
    osPid,              \* what the OS runs under each pid recorded by an earlier run
    cleanLog,           \* the cleanup_crashed_processes calls that have returned
    \* ---- the daemon processes and the files they share ----
    pidFile,            \* content of the PID file: "none" when the file is absent
    daemon,             \* per daemon process, its position in main and what it found
    \* ---- the task operations of session_worker ----
    pauser,             \* position of pause_task_async
    pauseLog,           \* the pause_task_async calls that have returned, in order
    markerStatus,       \* per task name, the status in its marker file, or none
    wk,                 \* position of spawn_worktree_task_async / spawn_session_async
    taskDir,            \* the task's directory exists
    marker,             \* the marker file in the task's directory: none / pending / complete
    thread,             \* the task's chat thread: none / open / closed
    createLog,          \* the worker creations that have ended
    inodes,             \* the files of the registry's directory, by inode: their content
    regFile,            \* the inode the registry file's name points to
    tmpFile,            \* the inode the temporary file's name points to
    nextInode,          \* the next inode the file system hands out
    fwriter,            \* position of _write_json
    freader,            \* position of _read_json
    writeLog,           \* the _write_json calls that have ended
    readLog,            \* the _read_json calls that have ended
    lock,               \* PermissionManager._lock: the thread that holds it, or free
    thPc,               \* per thread, its position in the broker's code
    lkPending,          \* the keys of PermissionManager.pending
    lkSlot,             \* per tool_use_id, the replies in its response_queue
    nLockCalls,         \* respond / register_telegram_msg / get_pending calls so far
    hook,               \* one run of permission_hook.main: its inputs, position and output
    crashed,             \* the objects whose event_monitor ended in its except branch
    termLog,             \* the stop() calls on a ClaudeProcess without a subprocess that have returned
    updates,            \* per update_id, the kind of update the chat server holds
    arrived,            \* the highest update_id the chat server has received
    cfgOffset,          \* telegram_offset in the Config store
    poller,             \* TelegramAdapter.incoming_messages: its position, self.offset and the batch in hand
    handed,             \* the update_ids yielded to the orchestrator, over all runs of the daemon
    nCrashes            \* the times the daemon was stopped or crashed

brokerVars == <<loop, serving, pending, msg_to_tool, response_queue,
                notification_queue, reqPc, wake, result, respPc, respLog,
                respHist, nResponds, nDupSignals, notif, notifLast, prompts,
                nextMsgId>>

supVars == <<processes, event_tasks, monitors, mgr_queue, proc, nProcs, emitted,
             delivered, sender, sendLog, nSends, opPc, opDrain>>

singletonVars == <<pidFile, daemon>>

pauseVars == <<pauser, pauseLog, markerStatus>>

workerVars == <<wk, taskDir, marker, thread, createLog>>

fileVars == <<inodes, regFile, tmpFile, nextInode, fwriter, freader, writeLog, readLog>>

lockVars == <<lock, thPc, lkPending, lkSlot, nLockCalls>>

hookVars == <<hook>>

monitorVars == <<crashed>>

termVars == <<termLog>>

pollVars == <<updates, arrived, cfgOffset, poller, handed, nCrashes>>

sysVars == <<singletonVars, pauseVars, workerVars, fileVars, lockVars, hookVars, monitorVars, termVars, pollVars>>

\* the groups a step of one group leaves alone
sysButSingleton == <<pauseVars, workerVars, fileVars, lockVars, hookVars, monitorVars, termVars, pollVars>>
sysButPause == <<singletonVars, workerVars, fileVars, lockVars, hookVars, monitorVars, termVars, pollVars>>
sysButWorker == <<singletonVars, pauseVars, fileVars, lockVars, hookVars, monitorVars, termVars, pollVars>>
sysButFile == <<singletonVars, pauseVars, workerVars, lockVars, hookVars, monitorVars, termVars, pollVars>>
sysButLock == <<singletonVars, pauseVars, workerVars, fileVars, hookVars, monitorVars, termVars, pollVars>>
sysButHook == <<singletonVars, pauseVars, workerVars, fileVars, lockVars, monitorVars, termVars, pollVars>>

sysButMonitor == <<singletonVars, pauseVars, workerVars, fileVars, lockVars, hookVars, termVars, pollVars>>

sysButTerm == <<singletonVars, pauseVars, workerVars, fileVars, lockVars, hookVars, monitorVars, pollVars>>

sysButPoll == <<singletonVars, pauseVars, workerVars, fileVars, lockVars, hookVars, monitorVars, termVars>>

extVars == <<spawner, spawnLog, nSpawns, shutdown, aeDone, yieldsAfter, stopAll,
             stopPc, osPid, cleanLog>>

nonBrokerVars == <<registry, supVars, extVars, sysVars>>

vars == <<brokerVars, nonBrokerVars>>

(***************************************************************************)
(* Dictionaries: functions whose domain is the set of keys present         *)
(***************************************************************************)
DictPut(d, k, v) == [x \in (DOMAIN d) \cup {k} |-> IF x = k THEN v ELSE d[x]]
DictPop(d, k) == [x \in (DOMAIN d) \ {k} |-> d[x]]
EmptyDict == [x \in {} |-> 0]

(***************************************************************************)
(* Registry (registry.py is not part of the sources; modelled from the     *)
(* specification's section 4.A)                                            *)
(***************************************************************************)
NoSession == "none"
NoPid == 0

\* get_chat_thread_for_session(agent_session_id) -> id | None  (0: None)
GetTopicForSession(session_id) ==
    IF \E n \in DOMAIN registry : registry[n].session_id = session_id
    THEN (CHOOSE n \in DOMAIN registry : registry[n].session_id = session_id)
    ELSE "none"

InitRegistry ==
    [n \in {"w1"} |-> [session_id |-> "S1", pid |-> NoPid, path |-> "/w1",
                       status |-> "active"]]

(***************************************************************************)
(* Daemon.start: install the loop, then start the HTTP server thread       *)
(***************************************************************************)
SetEventLoop ==
    /\ ~loop
    /\ loop' = TRUE
    /\ UNCHANGED <<serving, pending, msg_to_tool, response_queue,
                   notification_queue, reqPc, wake, result, respPc, respLog,
                   respHist, nResponds, nDupSignals, notif, notifLast, prompts,
                   nextMsgId, nonBrokerVars>>

\* the thread is started whether or not the loop is installed
ServerMayStartAnytime == TRUE
\* 119-127: set_event_loop is called before the server's thread is started
ServerMayStart == loop

StartPermissionServer ==
    /\ ServerMayStart
    /\ ~serving
    /\ serving' = TRUE
    /\ UNCHANGED <<loop, pending, msg_to_tool, response_queue,
                   notification_queue, reqPc, wake, result, respPc, respLog,
                   respHist, nResponds, nDupSignals, notif, notifLast, prompts,
                   nextMsgId, nonBrokerVars>>

(***************************************************************************)
(* PermissionManager.request_permission, one HTTP thread per tool_use_id   *)
(***************************************************************************)
\* lines 86-101: auto-allow returns at once; otherwise insert under the lock
RequestInsert(id, tool_name, session_id) ==
    /\ serving
    /\ reqPc[id] = "idle"
    /\ IF tool_name \in auto_allow
       THEN /\ reqPc' = [reqPc EXCEPT ![id] = "done"]
            /\ wake' = [wake EXCEPT ![id] = "auto"]
            /\ result' = [result EXCEPT ![id] = AutoResult(tool_name)]
            /\ UNCHANGED pending
       ELSE /\ pending' = DictPut(pending, id,
                                  [tool_name |-> tool_name,
                                   session_id |-> session_id,
                                   telegram_msg_id |-> NoMsgId])
            /\ reqPc' = [reqPc EXCEPT ![id] = "inserted"]
            /\ UNCHANGED <<wake, result>>
    /\ UNCHANGED <<loop, serving, msg_to_tool, response_queue,
                   notification_queue, respPc, respLog, respHist, nResponds,
                   nDupSignals, notif, notifLast, prompts, nextMsgId, nonBrokerVars>>

\* _signal_new_request: enqueue (tool_use_id, session_id) on the loop's queue
SignalNewRequest(id, session_id) ==
    IF loop
    THEN notification_queue' = Append(notification_queue, <<id, session_id>>)
    ELSE UNCHANGED notification_queue

\* line 106
RequestSignal(id) ==
    /\ reqPc[id] = "inserted"
    /\ SignalNewRequest(id, pending[id].session_id)
    /\ reqPc' = [reqPc EXCEPT ![id] = "waiting"]
    /\ UNCHANGED <<loop, serving, pending, msg_to_tool, response_queue, wake,
                   result, respPc, respLog, respHist, nResponds, nDupSignals,
                   notif, notifLast, prompts, nextMsgId, nonBrokerVars>>

\* which queued reply the blocking get hands over: queue.Queue is FIFO
QueueGetLast(q) == <<q[Len(q)], SubSeq(q, 1, Len(q) - 1)>>
QueueGet(q) == <<Head(q), Tail(q)>>

\* lines 110-112: response_queue.get returned an item
RequestWakeResponse(id) ==
    /\ reqPc[id] = "waiting"
    /\ response_queue[id] # << >>
    /\ LET got == QueueGet(response_queue[id]) IN
        /\ result' = [result EXCEPT ![id] = got[1]]
        /\ response_queue' = [response_queue EXCEPT ![id] = got[2]]
    /\ wake' = [wake EXCEPT ![id] = "response"]
    /\ reqPc' = [reqPc EXCEPT ![id] = "woken"]
    /\ UNCHANGED <<loop, serving, pending, msg_to_tool, notification_queue,
                   respPc, respLog, respHist, nResponds, nDupSignals, notif,
                   notifLast, prompts, nextMsgId, nonBrokerVars>>

\* what the timed-out wait returns
TimeoutReturnAllow == <<"allow", "Permission request timed out">>
TimeoutReturn == TimeoutResult

\* the wait never times out
RequestTimeoutNever(id) == FALSE /\ UNCHANGED vars
\* lines 114-116: queue.Empty after 300 s with nothing in the slot
RequestTimeout(id) ==
    /\ reqPc[id] = "waiting"
    /\ response_queue[id] = << >>
    /\ result' = [result EXCEPT ![id] = TimeoutReturn]
    /\ wake' = [wake EXCEPT ![id] = "timeout"]
    /\ reqPc' = [reqPc EXCEPT ![id] = "woken"]
    /\ UNCHANGED <<loop, serving, pending, msg_to_tool, response_queue,
                   notification_queue, respPc, respLog, respHist, nResponds,
                   nDupSignals, notif, notifLast, prompts, nextMsgId, nonBrokerVars>>

\* the finally block forgets to pop the entry
CleanupPendingKeep(p, id) == p
\* line 121: self.pending.pop(tool_use_id, None)
CleanupPending(p, id) == DictPop(p, id)

\* the finally block leaves the message map as it is
CleanupMsgMapKeep(m, id) == m
\* lines 123-125: drop every msg_id that maps to the id
CleanupMsgMap(m, id) ==
    [x \in {y \in DOMAIN m : m[y] # id} |-> m[x]]

\* lines 118-125: the finally block, under the lock; then the call returns
RequestCleanup(id) ==
    /\ reqPc[id] = "woken"
    /\ pending' = CleanupPending(pending, id)
    /\ msg_to_tool' = CleanupMsgMap(msg_to_tool, id)
    /\ reqPc' = [reqPc EXCEPT ![id] = "done"]
    /\ UNCHANGED <<loop, serving, response_queue, notification_queue, wake,
                   result, respPc, respLog, respHist, nResponds, nDupSignals,
                   notif, notifLast, prompts, nextMsgId, nonBrokerVars>>

(***************************************************************************)
(* PermissionManager.respond, called by Daemon._handle_callback            *)
(***************************************************************************)
RespIdle == [pc |-> "idle", id |-> "T1", decision |-> "allow"]

\* lines 132-136: look the id up under the lock
RespondLookup(r, id, decision) ==
    /\ respPc[r].pc = "idle"
    /\ nResponds < MaxResponds
    /\ nResponds' = nResponds + 1
    /\ IF id \in DOMAIN pending
       THEN /\ respPc' = [respPc EXCEPT ![r] =
                            [pc |-> "put", id |-> id, decision |-> decision]]
            /\ respLog' = [respLog EXCEPT ![id] = Append(@, TRUE)]
       ELSE /\ respLog' = [respLog EXCEPT ![id] = Append(@, FALSE)]
            /\ UNCHANGED respPc
    /\ UNCHANGED <<loop, serving, pending, msg_to_tool, response_queue,
                   notification_queue, reqPc, wake, result, respHist,
                   nDupSignals, notif, notifLast, prompts, nextMsgId, nonBrokerVars>>

\* lines 138-140: fulfil the slot outside the lock and return True
RespondPut(r) ==
    /\ respPc[r].pc = "put"
    /\ LET id == respPc[r].id
           reply == <<respPc[r].decision, CallbackReason(respPc[r].decision)>>
       IN /\ response_queue' = [response_queue EXCEPT ![id] = Append(@, reply)]
          /\ respHist' = [respHist EXCEPT ![id] = Append(@, reply)]
    /\ respPc' = [respPc EXCEPT ![r] = RespIdle]
    /\ UNCHANGED <<loop, serving, pending, msg_to_tool, notification_queue,
                   reqPc, wake, result, respLog, nResponds, nDupSignals, notif,
                   notifLast, prompts, nextMsgId, nonBrokerVars>>

\* a racing producer signals a pending request a second time
DuplicateSignal(id) ==
    /\ nDupSignals < MaxDupSignals
    /\ id \in DOMAIN pending
    /\ reqPc[id] \in {"waiting", "woken"}
    /\ nDupSignals' = nDupSignals + 1
    /\ SignalNewRequest(id, pending[id].session_id)
    /\ UNCHANGED <<loop, serving, pending, msg_to_tool, response_queue, reqPc,
                   wake, result, respPc, respLog, respHist, nResponds, notif,
                   notifLast, prompts, nextMsgId, nonBrokerVars>>

(***************************************************************************)
(* Daemon._handle_permission_requests: the permission-notification loop    *)
(***************************************************************************)
NotifIdle == [pc |-> "idle", id |-> "T1", topic |-> "none", msg |-> NoMsgId]

\* the check is missing: every notification is sent
AlreadyNotifiedNever(p) == FALSE
\* line 333: pending.telegram_msg_id is not None
AlreadyNotified(p) == p.telegram_msg_id # NoMsgId

\* pending_notifications yields the head; _process_permission_request 324-334
NotifyCheck ==
    /\ notif.pc = "idle"
    /\ notification_queue # << >>
    /\ notification_queue' = Tail(notification_queue)
    /\ LET id == Head(notification_queue)[1]
           topic == GetTopicForSession(Head(notification_queue)[2])
       IN IF topic = "none"
          THEN notifLast' = "no_topic" /\ UNCHANGED notif
          ELSE IF id \notin DOMAIN pending
          THEN notifLast' = "resolved" /\ UNCHANGED notif
          ELSE IF AlreadyNotified(pending[id])
          THEN notifLast' = "already_notified" /\ UNCHANGED notif
          ELSE /\ notif' = [pc |-> "send", id |-> id, topic |-> topic,
                            msg |-> NoMsgId]
               /\ notifLast' = "sending"
    /\ UNCHANGED <<loop, serving, pending, msg_to_tool, response_queue, reqPc,
                   wake, result, respPc, respLog, respHist, nResponds,
                   nDupSignals, prompts, nextMsgId, nonBrokerVars>>

\* send_permission_notification 267-290: look up again, post the prompt
NotifySend(ok) ==
    /\ notif.pc = "send"
    /\ IF notif.id \notin DOMAIN pending
       THEN /\ notif' = NotifIdle
            /\ notifLast' = "not_found"
            /\ UNCHANGED <<prompts, nextMsgId>>
       ELSE IF ok
       THEN /\ prompts' = [prompts EXCEPT ![notif.id] = @ + 1]
            /\ notif' = [notif EXCEPT !.pc = "register", !.msg = nextMsgId]
            /\ nextMsgId' = nextMsgId + 1
            /\ notifLast' = "posted"
       ELSE /\ notif' = NotifIdle
            /\ notifLast' = "send_failed"
            /\ UNCHANGED <<prompts, nextMsgId>>
    /\ UNCHANGED <<loop, serving, pending, msg_to_tool, response_queue,
                   notification_queue, reqPc, wake, result, respPc, respLog,
                   respHist, nResponds, nDupSignals, nonBrokerVars>>

\* register_telegram_msg 155-162, called at line 294
NotifyRegister ==
    /\ notif.pc = "register"
    /\ IF notif.id \in DOMAIN pending
       THEN /\ pending' = [pending EXCEPT ![notif.id].telegram_msg_id = notif.msg]
            /\ msg_to_tool' = DictPut(msg_to_tool, notif.msg, notif.id)
            /\ notifLast' = "registered"
       ELSE /\ notifLast' = "registered_late"
            /\ UNCHANGED <<pending, msg_to_tool>>
    /\ notif' = NotifIdle
    /\ UNCHANGED <<loop, serving, response_queue, notification_queue, reqPc,
                   wake, result, respPc, respLog, respHist, nResponds,
                   nDupSignals, prompts, nextMsgId, nonBrokerVars>>

(***************************************************************************)
(* ClaudeProcess: one child process, its pipes and its stdout reader        *)
(***************************************************************************)
Names == {"operator", "w1"}             \* task names with a registry row
UnknownNames == {"w9"}                  \* a task name no registry row knows
Prompt == "prompt"                      \* the operator's seed prompt

\* the process object number k created for task name n
Obj(n, k) == <<n, k>>

\* ClaudeProcess.__init__
NewProc(resume) ==
    [started |-> FALSE, alive |-> FALSE, stdin |-> << >>,
     event_queue |-> << >>, reader |-> "none", session_id |-> NoSession,
     resume_session_id |-> resume, answered |-> 0, init_sent |-> FALSE,
     running |-> FALSE]

\* ClaudeProcess.start succeeded: the child runs and the readers are started
StartOk(p) ==
    [p EXCEPT !.started = TRUE, !.alive = TRUE, !.reader = "running",
              !.running = TRUE]

\* ClaudeProcess.is_running: process is not None and returncode is None
ProcRunning(p) == p.started /\ p.alive

\* ClaudeProcess.pid (a distinct number per child)
PidOf(obj) == (IF obj[1] = "operator" THEN 100 ELSE 200) + obj[2]

\* the session id a child announces in its init event
AnnouncedSession(obj) ==
    IF proc[obj].resume_session_id # NoSession
    THEN proc[obj].resume_session_id
    ELSE obj[1] \o "-" \o ToString(obj[2])

\* the new session id a child announces in a repeated init event, after its
\* internal compaction
CompactedSession(obj) == obj[1] \o "-" \o ToString(obj[2]) \o "c"

\* the None sentinel that ends events()
EofEvent == [seq |-> 0, kind |-> "eof", turn |-> "none", session_id |-> NoSession]

\* the line is written twice
StdinWriteTwice(lines, msg, call) ==
    Append(Append(lines, [msg |-> msg, call |-> call]), [msg |-> msg, call |-> call])
\* ClaudeProcess.send_message 285-302: one JSONL user line on the child's stdin
StdinWrite(lines, msg, call) == Append(lines, [msg |-> msg, call |-> call])

\* the line a live child writes next on its stdout: its init event first (and
\* again after a compaction), then the events of the turn that answers its
\* next unanswered stdin line; a "junk" line is malformed JSON or an event
\* type the reader does not handle
ChildMayWrite(obj, kind) ==
    /\ proc[obj].alive
    /\ emitted["operator"] + emitted["w1"] < MaxEvents
    /\ kind \in {"assistant", "result"} =>
          proc[obj].init_sent /\ proc[obj].answered < Len(proc[obj].stdin)

ChildLine(obj, kind) ==
    [seq |-> emitted[obj[1]] + 1,
     kind |-> kind,
     turn |-> IF kind \in {"assistant", "result"}
              THEN proc[obj].stdin[proc[obj].answered + 1].msg ELSE "none",
     session_id |-> IF kind # "init" THEN NoSession
                    ELSE IF proc[obj].init_sent THEN CompactedSession(obj)
                    ELSE AnnouncedSession(obj)]

\* the child exits or crashes
ChildExit(obj) ==
    /\ obj \in DOMAIN proc
    /\ proc[obj].alive
    /\ proc' = [proc EXCEPT ![obj].alive = FALSE]
    /\ UNCHANGED <<processes, event_tasks, monitors, mgr_queue, nProcs, emitted,
                   delivered, sender, sendLog, nSends, opPc, opDrain, registry,
                   brokerVars, extVars, sysVars>>

\* _process_event: await self._event_queue.put(...)
ReaderPut(q, ev) == Append(q, ev)

\* ClaudeProcess._read_stdout 164-195 with _process_event 217-270: readline
\* returns the child's next line, or EOF once the child has exited; the loop
\* ends after a line when terminate has cleared _running
ReadStdout(obj, kind) ==
    /\ obj \in DOMAIN proc
    /\ proc[obj].reader = "running"
    /\ IF kind = "eof"
       THEN /\ ~proc[obj].alive
            /\ proc' = [proc EXCEPT ![obj].event_queue = Append(@, EofEvent),
                                    ![obj].reader = "done"]
            /\ UNCHANGED emitted
       ELSE /\ ChildMayWrite(obj, kind)
            /\ LET ev == ChildLine(obj, kind) IN
               proc' = [proc EXCEPT
                          ![obj].init_sent = @ \/ kind = "init",
                          ![obj].answered = IF kind = "result" THEN @ + 1 ELSE @,
                          ![obj].event_queue =
                              LET q == IF kind = "junk" THEN @ ELSE ReaderPut(@, ev)
                              IN IF proc[obj].running THEN q
                                 ELSE Append(q, EofEvent),
                          ![obj].reader = IF proc[obj].running THEN @ ELSE "done",
                          ![obj].session_id = IF kind = "init" THEN ev.session_id
                                              ELSE @]
            /\ emitted' = [emitted EXCEPT ![obj[1]] = @ + 1]
    /\ UNCHANGED <<processes, event_tasks, monitors, mgr_queue, nProcs, delivered,
                   sender, sendLog, nSends, opPc, opDrain, registry, brokerVars, extVars,
                   sysVars>>

(***************************************************************************)
(* ProcessManager: the event monitors and the multiplexed stream            *)
(***************************************************************************)
\* ProcessManager.is_running
IsRunning(n) == n \in DOMAIN processes /\ ProcRunning(proc[Obj(n, processes[n])])

\* the monitor puts the newest event first
MgrQueuePutFront(q, item) == <<item>> \o q
\* event_monitor: await self._event_queue.put((task_name, event))
MgrQueuePut(q, item) == Append(q, item)

\* _start_event_task 395-421: one step of event_monitor for the object
MonitorForward(obj) ==
    /\ obj \in monitors
    /\ proc[obj].event_queue # << >>
    /\ LET ev == Head(proc[obj].event_queue) IN
       IF ev.kind = "eof"
       THEN /\ monitors' = monitors \ {obj}
            /\ UNCHANGED mgr_queue
       ELSE /\ mgr_queue' = MgrQueuePut(mgr_queue, [name |-> obj[1], ev |-> ev])
            /\ UNCHANGED monitors
    /\ proc' = [proc EXCEPT ![obj].event_queue = Tail(@)]
    /\ UNCHANGED <<processes, event_tasks, nProcs, emitted, delivered, sender,
                   sendLog, nSends, opPc, opDrain, registry, brokerVars, extVars,
                   sysVars>>

(***************************************************************************)
(* event_monitor when the pooled object's events() raises                  *)
(***************************************************************************)
InitMonitorIdle == crashed = {}

\* 408-414: the event put on the multiplexed stream for the exception
ErrorEvent == [seq |-> 0, kind |-> "error", turn |-> "none", session_id |-> NoSession]

\* the pool keeps the name
CrashRemoveKeep(pool, n) == pool
\* 416-418: the name is deleted from the pool, whatever object it holds
CrashRemove(pool, n) == DictPop(pool, n)

\* _start_event_task 408-418: events() of the monitored object raises (the
\* pool takes any object with the interface, register_process 190-212); the
\* monitor puts the error event, deletes the name from the pool and returns
MonitorRaise(obj) ==
    /\ obj \in monitors
    /\ monitors' = monitors \ {obj}
    /\ mgr_queue' = MgrQueuePut(mgr_queue, [name |-> obj[1], ev |-> ErrorEvent])
    /\ processes' = CrashRemove(processes, obj[1])
    /\ crashed' = crashed \cup {obj}
    /\ UNCHANGED <<event_tasks, proc, nProcs, emitted, delivered, sender, sendLog,
                   nSends, opPc, opDrain, registry, brokerVars, extVars,
                   sysButMonitor>>

\* Daemon._on_system_init 345-361: reading process._init_received, which no
\* ClaudeProcess has, raises for a pooled process and the update is skipped
OnSystemInit(name, ev) ==
    IF name \in DOMAIN processes \/ name \notin DOMAIN registry
    THEN registry
    ELSE [registry EXCEPT ![name].session_id = ev.session_id]

\* the generator never looks at the flag
LoopEndsNever == FALSE
\* all_events 380: while not self._shutdown
LoopEnds == shutdown

\* all_events 371-393 yields the head; _handle_claude_events 250-267 dispatches
Deliver ==
    /\ opPc \in {"running", "failed"}
    /\ ~aeDone
    /\ mgr_queue # << >>
    /\ aeDone' = LoopEnds
    /\ yieldsAfter' = IF shutdown THEN yieldsAfter + 1 ELSE yieldsAfter
    /\ LET item == Head(mgr_queue) IN
        /\ delivered' = [delivered EXCEPT ![item.name] = Append(@, item.ev)]
        /\ registry' = IF item.ev.kind = "init"
                       THEN OnSystemInit(item.name, item.ev)
                       ELSE registry
    /\ mgr_queue' = Tail(mgr_queue)
    /\ UNCHANGED <<processes, event_tasks, monitors, proc, nProcs, emitted, sender,
                   sendLog, nSends, opPc, opDrain, brokerVars, spawner, spawnLog,
                   nSpawns, shutdown, stopAll, stopPc, osPid, cleanLog, sysVars>>

\* the assistant messages forwarded to a task's chat thread, as their turns
Chat(n) ==
    LET a == SelectSeq(delivered[n], LAMBDA ev : ev.kind = "assistant")
    IN [i \in 1..Len(a) |-> a[i].turn]

(***************************************************************************)
(* ProcessManager.send_to_process, called by Daemon._route_message_to_claude *)
(***************************************************************************)
SenderIdle ==
    [pc |-> "idle", name |-> "operator", msg |-> "none", first |-> FALSE,
     k |-> 0, path |-> "none", row_session |-> NoSession]

\* the call number of the send_to_process call now running
CallNo == Len(sendLog) + 1

\* what the log keeps of a call when it returns
LogEntry(ret) ==
    [name |-> sender.name, msg |-> sender.msg, call |-> CallNo, ret |-> ret,
     path |-> sender.path, k |-> sender.k, row_session |-> sender.row_session,
     started |-> IF sender.k = 0 THEN FALSE
                 ELSE proc[Obj(sender.name, sender.k)].started,
     child_alive |-> IF sender.k = 0 THEN FALSE
                     ELSE proc[Obj(sender.name, sender.k)].alive,
     running |-> IsRunning(sender.name)]

\* the router falls back to the operator whatever the first send returned
AfterReturnAlways(ret) ==
    IF sender.first
    THEN [SenderIdle EXCEPT !.pc = "enter", !.name = "operator", !.msg = sender.msg]
    ELSE SenderIdle

\* the router falls back to the operator after a failed or refused first send
\* (daemon_core.py 433-449); otherwise the loop takes the next message
AfterReturn(ret) ==
    IF sender.first /\ ret # "true"
    THEN [SenderIdle EXCEPT !.pc = "enter", !.name = "operator", !.msg = sender.msg]
    ELSE SenderIdle

\* _handle_telegram_messages 300-301 and _route_message_to_claude 430-436
RouteMessage(task) ==
    /\ opPc \in {"running", "failed"}
    /\ sender.pc = "idle"
    /\ nSends < MaxSends
    /\ nSends' = nSends + 1
    /\ sender' = [SenderIdle EXCEPT !.pc = "enter", !.name = task,
                                    !.msg = "m" \o ToString(nSends + 1),
                                    !.first = (task # "operator")]
    /\ UNCHANGED <<processes, event_tasks, monitors, mgr_queue, proc, nProcs,
                   emitted, delivered, sendLog, opPc, opDrain, registry, brokerVars, extVars,
                   sysVars>>

\* 259-267: the process is pooled and running: write the line, await drain
SendDirect ==
    /\ sender.pc = "enter"
    /\ IsRunning(sender.name)
    /\ LET k == processes[sender.name] IN
        /\ proc' = [proc EXCEPT ![Obj(sender.name, k)].stdin =
                        StdinWrite(@, sender.msg, CallNo)]
        /\ sender' = [sender EXCEPT !.pc = "drain", !.k = k, !.path = "direct"]
    /\ UNCHANGED <<processes, event_tasks, monitors, mgr_queue, nProcs, emitted,
                   delivered, sendLog, nSends, opPc, opDrain, registry, brokerVars, extVars,
                   sysVars>>

\* 270-278: the pooled process is dead and its monitor still runs: cancel the
\* monitor and await it
SendCancelMonitor ==
    /\ sender.pc = "enter"
    /\ sender.name \in DOMAIN processes
    /\ ~IsRunning(sender.name)
    /\ sender.name \in DOMAIN event_tasks
    /\ Obj(sender.name, event_tasks[sender.name]) \in monitors
    /\ monitors' = monitors \ {Obj(sender.name, event_tasks[sender.name])}
    /\ sender' = [sender EXCEPT !.pc = "cancel"]
    /\ UNCHANGED <<processes, event_tasks, mgr_queue, proc, nProcs, emitted,
                   delivered, sendLog, nSends, opPc, opDrain, registry, brokerVars, extVars,
                   sysVars>>

\* the call is past its check of the pool and has no monitor left to await
ReadyToResurrect ==
    \/ sender.pc = "cancel"
    \/ /\ sender.pc = "enter"
       /\ ~IsRunning(sender.name)
       /\ sender.name \in DOMAIN processes =>
             \/ sender.name \notin DOMAIN event_tasks
             \/ Obj(sender.name, event_tasks[sender.name]) \notin monitors

\* the whole table is dropped
DropAll(d, n) == EmptyDict
\* 279-280: drop the dead process and its monitor entry
DropDead(d, n) == IF n \in DOMAIN processes THEN DictPop(d, n) ELSE d

\* 284-293: the registry has a row for the task, and the row has a path
RowUsable(n) == IF n \in DOMAIN registry THEN registry[n].path # "" ELSE FALSE

\* 282-293: no registry row (or no cwd): raise KeyError
SendUnknown ==
    /\ ReadyToResurrect
    /\ ~RowUsable(sender.name)
    /\ event_tasks' = DropDead(event_tasks, sender.name)
    /\ processes' = DropDead(processes, sender.name)
    /\ sendLog' = Append(sendLog, LogEntry("keyerror"))
    /\ sender' = AfterReturn("keyerror")
    /\ UNCHANGED <<monitors, mgr_queue, proc, nProcs, emitted, delivered, nSends,
                   opPc, opDrain, registry, brokerVars, extVars, sysVars>>

\* 289, 299-303: resume_session_id = task_data.get("session_id")
ResumeId(row) == row.session_id

\* 282-306: build the process from the registry row and await its start
SendResurrect ==
    /\ ReadyToResurrect
    /\ RowUsable(sender.name)
    /\ nProcs[sender.name] < MaxProcs
    /\ LET n == sender.name
           k == nProcs[n] + 1
       IN /\ event_tasks' = DropDead(event_tasks, n)
          /\ processes' = DropDead(processes, n)
          /\ proc' = DictPut(proc, Obj(n, k), NewProc(ResumeId(registry[n])))
          /\ nProcs' = [nProcs EXCEPT ![n] = k]
          /\ sender' = [sender EXCEPT !.pc = "starting", !.k = k,
                                      !.path = "resurrect",
                                      !.row_session = registry[n].session_id]
    /\ UNCHANGED <<monitors, mgr_queue, emitted, delivered, sendLog, nSends, opPc,
                   opDrain, registry, brokerVars, extVars, sysVars>>

\* the new process is not put into the pool
PoolKeep(d, n, k) == d
\* 318: self.processes[task_name] = process
PoolStore(d, n, k) == DictPut(d, n, k)

\* 306-324: start() returned; on success record the pid, pool the process,
\* start its monitor, write the message and await drain
SendStarted(ok) ==
    /\ sender.pc = "starting"
    /\ LET n == sender.name
           obj == Obj(sender.name, sender.k)
       IN IF ok
          THEN /\ registry' = [registry EXCEPT
                                 ![n].pid = PidOf(obj),
                                 ![n].session_id =
                                     IF proc[obj].session_id # NoSession
                                     THEN proc[obj].session_id ELSE @]
               /\ processes' = PoolStore(processes, n, sender.k)
               /\ event_tasks' = DictPut(event_tasks, n, sender.k)
               /\ monitors' = monitors \cup {obj}
               /\ proc' = [proc EXCEPT ![obj] =
                             [StartOk(@) EXCEPT !.stdin =
                                 StdinWrite(@, sender.msg, CallNo)]]
               /\ sender' = [sender EXCEPT !.pc = "drain"]
               /\ UNCHANGED sendLog
          ELSE /\ sendLog' = Append(sendLog, LogEntry("false"))
               /\ sender' = AfterReturn("false")
               /\ UNCHANGED <<registry, processes, event_tasks, monitors, proc>>
    /\ UNCHANGED <<mgr_queue, nProcs, emitted, delivered, nSends, opPc, opDrain,
                   brokerVars, extVars, sysVars>>

\* send_message 303-308: drain returns, or raises when the pipe is broken
SendDrained(ok) ==
    /\ sender.pc = "drain"
    /\ ~ok => ~proc[Obj(sender.name, sender.k)].alive
    /\ LET ret == IF ok THEN "true" ELSE "false" IN
        /\ sendLog' = Append(sendLog, LogEntry(ret))
        /\ sender' = AfterReturn(ret)
    /\ UNCHANGED <<processes, event_tasks, monitors, mgr_queue, proc, nProcs,
                   emitted, delivered, nSends, opPc, opDrain, registry, brokerVars, extVars,
                   sysVars>>

(***************************************************************************)
(* Daemon._spawn_operator and Daemon._drain_init_turn                       *)
(***************************************************************************)
OperatorObj == Obj("operator", nProcs["operator"])

\* 148-157 / 167-172: build the process and await its start
OpBegin ==
    /\ opPc = "init"
    /\ LET resume == IF "operator" \in DOMAIN registry
                        /\ registry["operator"].session_id # NoSession
                     THEN registry["operator"].session_id ELSE NoSession
       IN /\ proc' = DictPut(proc, Obj("operator", 1), NewProc(resume))
          /\ opPc' = IF resume # NoSession THEN "resume_starting" ELSE "new_starting"
    /\ nProcs' = [nProcs EXCEPT !["operator"] = 1]
    /\ UNCHANGED <<processes, event_tasks, monitors, mgr_queue, emitted, delivered,
                   sender, sendLog, nSends, opDrain, registry, brokerVars, extVars,
                   sysVars>>

\* 157-172: the resumed process is pooled and monitored at once; a failed
\* resume falls through to a new process
OpResumeStarted(ok) ==
    /\ opPc = "resume_starting"
    /\ IF ok
       THEN /\ proc' = [proc EXCEPT ![OperatorObj] = StartOk(@)]
            /\ processes' = DictPut(processes, "operator", nProcs["operator"])
            /\ event_tasks' = DictPut(event_tasks, "operator", nProcs["operator"])
            /\ monitors' = monitors \cup {OperatorObj}
            /\ opPc' = "running"
            /\ UNCHANGED nProcs
       ELSE /\ nProcs["operator"] < MaxProcs
            /\ proc' = DictPut(proc, Obj("operator", nProcs["operator"] + 1),
                               NewProc(NoSession))
            /\ nProcs' = [nProcs EXCEPT !["operator"] = @ + 1]
            /\ opPc' = "new_starting"
            /\ UNCHANGED <<processes, event_tasks, monitors>>
    /\ UNCHANGED <<mgr_queue, emitted, delivered, sender, sendLog, nSends, opDrain,
                   registry, brokerVars, extVars, sysVars>>

\* 172-180: pool the new process, no monitor yet; a failed start ends the spawn
OpNewStarted(ok) ==
    /\ opPc = "new_starting"
    /\ IF ok
       THEN /\ proc' = [proc EXCEPT ![OperatorObj] = StartOk(@)]
            /\ processes' = DictPut(processes, "operator", nProcs["operator"])
            /\ opPc' = "sleeping"
       ELSE /\ opPc' = "failed"
            /\ UNCHANGED <<proc, processes>>
    /\ UNCHANGED <<event_tasks, monitors, mgr_queue, nProcs, emitted, delivered,
                   sender, sendLog, nSends, opDrain, registry, brokerVars, extVars,
                   sysVars>>

\* 182-192: send the seed prompt, enter the drain
OpSendPrompt ==
    /\ opPc = "sleeping"
    /\ proc' = [proc EXCEPT ![OperatorObj].stdin = StdinWrite(@, Prompt, 0)]
    /\ opPc' = "draining"
    /\ UNCHANGED <<processes, event_tasks, monitors, mgr_queue, nProcs, emitted,
                   delivered, sender, sendLog, nSends, opDrain, registry, brokerVars, extVars,
                   sysVars>>

\* 224-238: the drain ends at the None sentinel or at the first SessionResult
DrainEnds(ev) == ev.kind \in {"eof", "result"}

\* 194-206: start the monitor, write the operator's registry row
OpFinish(how) ==
    /\ event_tasks' = DictPut(event_tasks, "operator", nProcs["operator"])
    /\ monitors' = monitors \cup {OperatorObj}
    /\ registry' = DictPut(registry, "operator",
                           [session_id |-> proc[OperatorObj].session_id,
                            pid |-> PidOf(OperatorObj), path |-> "/home",
                            status |-> "active"])
    /\ opDrain' = how
    /\ opPc' = "running"

\* 222-238: the drain takes one event off the process's own queue
OpDrainEvent ==
    /\ opPc = "draining"
    /\ proc[OperatorObj].event_queue # << >>
    /\ LET ev == Head(proc[OperatorObj].event_queue) IN
       IF DrainEnds(ev)
       THEN OpFinish(ev.kind)
       ELSE UNCHANGED <<event_tasks, monitors, registry, opDrain, opPc>>
    /\ proc' = [proc EXCEPT ![OperatorObj].event_queue = Tail(@)]
    /\ UNCHANGED <<processes, mgr_queue, nProcs, emitted, delivered, sender,
                   sendLog, nSends, brokerVars, extVars, sysVars>>

\* 219-221, 239-240: 120 s passed while the drain waited on an empty queue
OpDrainTimeout ==
    /\ opPc = "draining"
    /\ proc[OperatorObj].event_queue = << >>
    /\ OpFinish("timeout")
    /\ UNCHANGED <<processes, mgr_queue, proc, nProcs, emitted, delivered, sender,
                   sendLog, nSends, brokerVars, extVars, sysVars>>

(***************************************************************************)
(* Initial state and the broker's specification                            *)
(***************************************************************************)
InitBroker ==
    /\ loop = FALSE
    /\ serving = FALSE
    /\ pending = EmptyDict
    /\ msg_to_tool = EmptyDict
    /\ response_queue = [id \in ToolIds |-> << >>]
    /\ notification_queue = << >>
    /\ reqPc = [id \in ToolIds |-> "idle"]
    /\ wake = [id \in ToolIds |-> "none"]
    /\ result = [id \in ToolIds |-> NoResult]
    /\ respPc = [r \in Responders |-> RespIdle]
    /\ respLog = [id \in ToolIds |-> << >>]
    /\ respHist = [id \in ToolIds |-> << >>]
    /\ nResponds = 0
    /\ nDupSignals = 0
    /\ notif = NotifIdle
    /\ notifLast = "none"
    /\ prompts = [id \in ToolIds |-> 0]
    /\ nextMsgId = 1

(***************************************************************************)
(* ProcessManager.spawn_process and ProcessManager.resume_process           *)
(***************************************************************************)
SpawnerIdle ==
    [pc |-> "idle", op |-> "none", name |-> "operator", k |-> 0, start_ok |-> FALSE,
     had_row |-> FALSE, session_before |-> NoSession, pid_before |-> NoPid]

\* no stop_process call for the name
StopIdle == [pc |-> "none", k |-> 0]

\* the first prompt of a spawned worker
TaskPrompt == "task"

\* registry.get_task(name).get("session_id") and .get("pid"), None without a row
RowSession(reg, n) == IF n \in DOMAIN reg THEN reg[n].session_id ELSE NoSession
RowPid(reg, n) == IF n \in DOMAIN reg THEN reg[n].pid ELSE NoPid

\* what the log keeps of a spawn_process / resume_process call when it ends,
\* given the tables the call leaves behind
SpawnEntry(sp, ret, reg, pool, tasks, mons) ==
    [op |-> sp.op, name |-> sp.name, ret |-> ret, k |-> sp.k,
     had_row |-> sp.had_row,
     session_before |-> sp.session_before, pid_before |-> sp.pid_before,
     session_after |-> RowSession(reg, sp.name), pid_after |-> RowPid(reg, sp.name),
     start_ok |-> sp.start_ok,
     in_pool |-> IF sp.k = 0 THEN FALSE
                 ELSE sp.name \in DOMAIN pool /\ pool[sp.name] = sp.k,
     monitored |-> IF sp.k = 0 THEN FALSE ELSE Obj(sp.name, sp.k) \in mons]

\* the name is never found in the pool
AlreadyPooledNever(n) == FALSE
\* 98, 155: if task_name in self.processes
AlreadyPooled(n) == n \in DOMAIN processes

\* the value ClaudeProcess.start returned, as spawn_process stores it
StartResult(ok) == IF ok THEN "True" ELSE "False"

\* 98-111, 155-168: the caller enters spawn_process or resume_process; a name
\* already in the pool raises ValueError, otherwise the process object is built
\* and its start awaited
SpawnCall(op, n) ==
    /\ opPc \in {"running", "failed"}
    /\ spawner.pc = "idle"
    /\ nSpawns < MaxSpawns
    /\ op = "resume" => RowSession(registry, n) # NoSession
    /\ nSpawns' = nSpawns + 1
    /\ LET call == [SpawnerIdle EXCEPT !.op = op, !.name = n,
                                       !.had_row = (n \in DOMAIN registry),
                                       !.session_before = RowSession(registry, n),
                                       !.pid_before = RowPid(registry, n)]
       IN IF AlreadyPooled(n)
          THEN /\ spawnLog' = Append(spawnLog,
                                     SpawnEntry(call, "valueerror", registry,
                                                processes, event_tasks, monitors))
               /\ UNCHANGED <<spawner, proc, nProcs>>
          ELSE /\ nProcs[n] < MaxProcs
               /\ proc' = DictPut(proc, Obj(n, nProcs[n] + 1),
                                  NewProc(IF op = "resume"
                                          THEN RowSession(registry, n) ELSE NoSession))
               /\ nProcs' = [nProcs EXCEPT ![n] = @ + 1]
               /\ spawner' = [call EXCEPT !.pc = "starting", !.k = nProcs[n] + 1]
               /\ UNCHANGED spawnLog
    /\ UNCHANGED <<processes, event_tasks, monitors, mgr_queue, emitted, delivered,
                   sender, sendLog, nSends, opPc, opDrain, registry, brokerVars,
                   shutdown, aeDone, yieldsAfter, stopAll, stopPc, osPid, cleanLog,
                   sysVars>>

\* 111-131: start() has returned, whatever it returned: the row, if there is
\* one, gets the returned value and the pid, the process is pooled, its monitor
\* started and the prompt sent
SpawnStarted(ok) ==
    /\ spawner.pc = "starting"
    /\ spawner.op = "spawn"
    /\ LET n == spawner.name
           obj == Obj(spawner.name, spawner.k)
           reg == IF n \in DOMAIN registry
                  THEN [registry EXCEPT ![n].session_id = StartResult(ok),
                                        ![n].pid = IF ok THEN PidOf(obj) ELSE NoPid]
                  ELSE registry
           pool == DictPut(processes, n, spawner.k)
           tasks == DictPut(event_tasks, n, spawner.k)
           mons == monitors \cup {obj}
           pr == IF ok
                 THEN [proc EXCEPT ![obj] =
                         [StartOk(@) EXCEPT !.stdin = StdinWrite(@, TaskPrompt, 0)]]
                 ELSE proc
       IN /\ registry' = reg
          /\ processes' = pool
          /\ event_tasks' = tasks
          /\ monitors' = mons
          /\ proc' = pr
          /\ IF ok
             THEN /\ spawner' = [spawner EXCEPT !.pc = "drain", !.start_ok = TRUE]
                  /\ UNCHANGED spawnLog
             ELSE /\ spawner' = SpawnerIdle
                  /\ spawnLog' = Append(spawnLog,
                                        SpawnEntry(spawner, "ok", reg, pool, tasks,
                                                   mons))
    /\ UNCHANGED <<mgr_queue, nProcs, emitted, delivered, sender, sendLog, nSends,
                   opPc, opDrain, brokerVars, nSpawns, shutdown, aeDone, yieldsAfter,
                   stopAll, stopPc, osPid, cleanLog, sysVars>>

\* 128-131: send_message has returned (its result is not looked at) and
\* spawn_process returns the process
SpawnDrained ==
    /\ spawner.pc = "drain"
    /\ spawnLog' = Append(spawnLog,
                          SpawnEntry(spawner, "ok", registry, processes, event_tasks,
                                     monitors))
    /\ spawner' = SpawnerIdle
    /\ UNCHANGED <<processes, event_tasks, monitors, mgr_queue, proc, nProcs, emitted,
                   delivered, sender, sendLog, nSends, opPc, opDrain, registry,
                   brokerVars, nSpawns, shutdown, aeDone, yieldsAfter, stopAll,
                   stopPc, osPid, cleanLog, sysVars>>

\* 168-169: start() has returned True or False, which never equals the session
\* id asked for: the assert raises and nothing after it runs
ResumeStarted(ok) ==
    /\ spawner.pc = "starting"
    /\ spawner.op = "resume"
    /\ LET obj == Obj(spawner.name, spawner.k)
           pr == IF ok THEN [proc EXCEPT ![obj] = StartOk(@)] ELSE proc
       IN /\ proc' = pr
          /\ spawnLog' = Append(spawnLog,
                                SpawnEntry([spawner EXCEPT !.start_ok = ok], "assertion",
                                           registry, processes, event_tasks, monitors))
    /\ spawner' = SpawnerIdle
    /\ UNCHANGED <<processes, event_tasks, monitors, mgr_queue, nProcs, emitted,
                   delivered, sender, sendLog, nSends, opPc, opDrain, registry,
                   brokerVars, nSpawns, shutdown, aeDone, yieldsAfter, stopAll,
                   stopPc, osPid, cleanLog, sysVars>>

SpawnSteps ==
    \/ \E op \in {"spawn", "resume"}, n \in Names : SpawnCall(op, n)
    \/ \E ok \in BOOLEAN : SpawnStarted(ok)
    \/ SpawnDrained
    \/ \E ok \in BOOLEAN : ResumeStarted(ok)

(***************************************************************************)
(* ProcessManager.stop_all, stop_process and ClaudeProcess.terminate       *)
(***************************************************************************)
\* the monitor task of the name, if it has not finished yet
RunningMonitor(n) ==
    IF n \in DOMAIN event_tasks /\ Obj(n, event_tasks[n]) \in monitors
    THEN {Obj(n, event_tasks[n])}
    ELSE {}

\* stop_process 343-353 from the end of process.stop(): a monitor that still
\* runs is cancelled and awaited; one that has finished is awaited without
\* suspending, and the two entries are deleted at once
StopCancelPart(n) ==
    IF RunningMonitor(n) # {}
    THEN /\ monitors' = monitors \ RunningMonitor(n)
         /\ stopPc' = [stopPc EXCEPT ![n].pc = "cancelling"]
         /\ UNCHANGED <<processes, event_tasks>>
    ELSE /\ event_tasks' = DictPop(event_tasks, n)
         /\ IF n \in DOMAIN processes
            THEN /\ processes' = DictPop(processes, n)
                 /\ stopPc' = [stopPc EXCEPT ![n].pc = "done"]
            ELSE /\ stopPc' = [stopPc EXCEPT ![n].pc = "raised"]
                 /\ UNCHANGED processes
         /\ UNCHANGED monitors

\* stop_all 357-369: the flag is set and one stop_process is gathered for each
\* name that is in the pool now
StopAllBegin ==
    /\ opPc \in {"running", "failed"}
    /\ stopAll = "idle"
    /\ shutdown' = TRUE
    /\ stopPc' = [n \in Names |->
                    IF n \in DOMAIN processes
                    THEN [pc |-> "scheduled", k |-> processes[n]]
                    ELSE StopIdle]
    /\ stopAll' = IF DOMAIN processes = {} THEN "done" ELSE "running"
    /\ UNCHANGED <<processes, event_tasks, monitors, mgr_queue, proc, nProcs, emitted,
                   delivered, sender, sendLog, nSends, opPc, opDrain, registry,
                   brokerVars, spawner, spawnLog, nSpawns, aeDone, yieldsAfter,
                   osPid, cleanLog, sysVars>>

\* stop_process 335-341 with terminate 336-345: a name that has left the pool
\* raises KeyError; a process without a child is stopped at once; otherwise
\* _running is cleared, stdin closed and the exit of the child awaited
StopTerminateBegin(n) ==
    /\ stopPc[n].pc = "scheduled"
    /\ IF n \notin DOMAIN processes
       THEN /\ stopPc' = [stopPc EXCEPT ![n].pc = "raised"]
            /\ UNCHANGED <<processes, event_tasks, monitors, proc>>
       ELSE LET obj == Obj(n, processes[n]) IN
            IF ~proc[obj].started
            THEN /\ StopCancelPart(n)
                 /\ UNCHANGED proc
            ELSE /\ proc' = [proc EXCEPT ![obj].running = FALSE]
                 /\ stopPc' = [stopPc EXCEPT ![n] = [pc |-> "terminating",
                                                     k |-> processes[n]]]
                 /\ UNCHANGED <<processes, event_tasks, monitors>>
    /\ UNCHANGED <<mgr_queue, nProcs, emitted, delivered, sender, sendLog, nSends,
                   opPc, opDrain, registry, brokerVars, spawner, spawnLog, nSpawns,
                   shutdown, aeDone, yieldsAfter, stopAll, osPid, cleanLog, sysVars>>

\* terminate 347-373: the child has exited or was killed, a reader that still
\* runs is cancelled and puts its end-of-stream mark, self.process is dropped;
\* stop_process goes on to the monitor
StopTerminated(n) ==
    /\ stopPc[n].pc = "terminating"
    /\ LET obj == Obj(n, stopPc[n].k) IN
       proc' = [proc EXCEPT
                  ![obj].alive = FALSE,
                  ![obj].started = FALSE,
                  ![obj].event_queue = IF proc[obj].reader = "running"
                                       THEN Append(@, EofEvent) ELSE @,
                  ![obj].reader = IF @ = "running" THEN "done" ELSE @]
    /\ StopCancelPart(n)
    /\ UNCHANGED <<mgr_queue, nProcs, emitted, delivered, sender, sendLog, nSends,
                   opPc, opDrain, registry, brokerVars, spawner, spawnLog, nSpawns,
                   shutdown, aeDone, yieldsAfter, stopAll, osPid, cleanLog, sysVars>>

\* stop_process 350-353: the cancelled monitor has ended; both entries are
\* deleted
StopCancelled(n) ==
    /\ stopPc[n].pc = "cancelling"
    /\ IF n \in DOMAIN event_tasks /\ n \in DOMAIN processes
       THEN /\ event_tasks' = DictPop(event_tasks, n)
            /\ processes' = DictPop(processes, n)
            /\ stopPc' = [stopPc EXCEPT ![n].pc = "done"]
       ELSE /\ event_tasks' = DictPop(event_tasks, n)
            /\ stopPc' = [stopPc EXCEPT ![n].pc = "raised"]
            /\ UNCHANGED processes
    /\ UNCHANGED <<monitors, mgr_queue, proc, nProcs, emitted, delivered, sender,
                   sendLog, nSends, opPc, opDrain, registry, brokerVars, spawner,
                   spawnLog, nSpawns, shutdown, aeDone, yieldsAfter, stopAll, osPid,
                   cleanLog, sysVars>>

InitTermIdle == termLog = << >>

\* the call returns False
TerminateNoProcessFalse(p) == [ret |-> FALSE, p |-> p]
\* terminate 337-338: if not self.process: return True
TerminateNoProcess(p) == [ret |-> TRUE, p |-> p]

\* ClaudeProcess.stop 322-338 on an object that has no subprocess: one that was
\* never started, whose start failed, or that a stop has already ended
TerminateStopped(obj) ==
    /\ obj \in DOMAIN proc
    /\ ~proc[obj].started
    /\ Len(termLog) < MaxTerminates
    /\ LET out == TerminateNoProcess(proc[obj]) IN
        /\ proc' = [proc EXCEPT ![obj] = out.p]
        /\ termLog' = Append(termLog,
                             [obj |-> obj, ret |-> out.ret,
                              stopped_before |-> proc[obj].reader # "none",
                              same |-> out.p = proc[obj]])
    /\ UNCHANGED <<processes, event_tasks, monitors, mgr_queue, nProcs, emitted,
                   delivered, sender, sendLog, nSends, opPc, opDrain, registry,
                   brokerVars, extVars, sysButTerm>>

\* stop_all 366-369: gather returns when every stop_process has ended
StopAllDone ==
    /\ stopAll = "running"
    /\ \A n \in Names : stopPc[n].pc \in {"none", "done", "raised"}
    /\ stopAll' = "done"
    /\ UNCHANGED <<processes, event_tasks, monitors, mgr_queue, proc, nProcs, emitted,
                   delivered, sender, sendLog, nSends, opPc, opDrain, registry,
                   brokerVars, spawner, spawnLog, nSpawns, shutdown, aeDone,
                   yieldsAfter, stopPc, osPid, cleanLog, sysVars>>

StopSteps ==
    \/ StopAllBegin
    \/ \E n \in Names : StopTerminateBegin(n)
    \/ \E n \in Names : StopTerminated(n)
    \/ \E n \in Names : StopCancelled(n)
    \/ StopAllDone

\* all_events 380-390: wait_for gives up after the poll interval with nothing
\* in the queue and the loop tests the flag again
AllEventsTimeout ==
    /\ opPc \in {"running", "failed"}
    /\ ~aeDone
    /\ mgr_queue = << >>
    /\ shutdown
    /\ aeDone' = LoopEnds
    /\ UNCHANGED <<processes, event_tasks, monitors, mgr_queue, proc, nProcs, emitted,
                   delivered, sender, sendLog, nSends, opPc, opDrain, registry,
                   brokerVars, spawner, spawnLog, nSpawns, shutdown, yieldsAfter,
                   stopAll, stopPc, osPid, cleanLog, sysVars>>

(***************************************************************************)
(* ProcessManager.cleanup_crashed_processes                                *)
(***************************************************************************)
\* pids that registry rows of an earlier run of the daemon may still record
StalePids == {300, 301}
\* none of them is in use
NoStalePids == [p \in StalePids |-> "gone"]
\* what the OS may run under such a pid now: nothing, a process of the
\* daemon's user, or a process of another user
PidStates == {"gone", "own", "foreign"}

\* pids of the children of this run that have not exited
LiveChildPids == {PidOf(obj) : obj \in {o \in DOMAIN proc : proc[o].alive}}

\* the pids under which a process exists
LivePids == {p \in StalePids : osPid[p] # "gone"} \cup LiveChildPids

\* the pids of processes the daemon's user may signal
SignalablePids == {p \in StalePids : osPid[p] = "own"} \cup LiveChildPids

\* os.kill(pid, 0) returns for every pid
KillOkAlways(pid) == TRUE
\* 476-479: os.kill(pid, 0) returns for a process the daemon may signal; it
\* raises ProcessLookupError when there is none and PermissionError when the
\* process belongs to another user, both OSError
KillOk(pid) == pid \in SignalablePids

\* 466-472, 480-485: the rows whose pid is cleared: not in the pool, with a
\* pid, and the signal fails
Cleaned ==
    {n \in DOMAIN registry :
        /\ n \notin DOMAIN processes
        /\ registry[n].pid # NoPid
        /\ ~KillOk(registry[n].pid)}

\* cleanup_crashed_processes 450-487, which has no await: task_data.pop("pid")
\* and add_task for each such row, the names returned
CleanupCrashed ==
    /\ Len(cleanLog) < MaxCleanups
    /\ registry' = [n \in DOMAIN registry |->
                      IF n \in Cleaned THEN [registry[n] EXCEPT !.pid = NoPid]
                      ELSE registry[n]]
    /\ cleanLog' = Append(cleanLog,
                          [before |-> registry, pool |-> DOMAIN processes,
                           live |-> LivePids, signalable |-> SignalablePids,
                           returned |-> Cleaned, after |-> registry'])
    /\ UNCHANGED <<processes, event_tasks, monitors, mgr_queue, proc, nProcs, emitted,
                   delivered, sender, sendLog, nSends, opPc, opDrain, brokerVars,
                   spawner, spawnLog, nSpawns, shutdown, aeDone, yieldsAfter, stopAll,
                   stopPc, osPid, sysVars>>


(***************************************************************************)
(* daemon_core.main: check_singleton and the PID file                      *)
(***************************************************************************)
\* everything but the PID file and the daemon processes
notSingleton == <<brokerVars, registry, supVars, extVars, sysButSingleton>>

\* the daemon processes started in one run of the model
Daemons == {1, 2}

\* os.getpid() of a daemon process
DaemonPid(d) == 500 + d

\* a PID file that does not hold a decimal number
JunkPid == "not-a-number"

\* str(os.getpid()), as written to the PID file
PidText(pid) == ToString(pid)

\* the pids a PID file may name
KnownPids == StalePids \cup {DaemonPid(d) : d \in Daemons}

\* 76: int(pid_file.read_text().strip()); 0 stands for ValueError
ParsePid(text) ==
    IF \E p \in KnownPids : PidText(p) = text
    THEN CHOOSE p \in KnownPids : PidText(p) = text
    ELSE 0

\* no daemon process yet
DaemonOff == [pc |-> "off", saw |-> "none", found |-> "nothing"]

\* the daemon processes that exist: main has begun and the process has neither
\* exited nor been killed
LiveDaemons == {d \in Daemons : daemon[d].pc \in {"check", "probe", "write", "running"}}

\* the daemons past check_singleton
RunningDaemons == {d \in Daemons : daemon[d].pc = "running"}

\* 77: os.kill(pid, 0) in check_singleton returns when a process of the
\* daemon's user holds the pid: a daemon, or whatever reuses the pid of an
\* earlier run
ProbeOk(pid) ==
    IF pid \in StalePids THEN osPid[pid] = "own"
    ELSE \E d \in LiveDaemons : DaemonPid(d) = pid

\* what the PID file read at line 76 is evidence of: a daemon that is past its
\* own check and running, a daemon that was killed and left the file behind
\* (in this run or an earlier one), or neither
FoundBy(content) ==
    IF \E d \in RunningDaemons : PidText(DaemonPid(d)) = content THEN "live"
    ELSE IF \/ \E p \in StalePids : PidText(p) = content
            \/ \E d \in Daemons : PidText(DaemonPid(d)) = content
                                   /\ daemon[d].pc = "killed"
         THEN "stale"
         ELSE "nothing"

\* 484-485: a daemon process is started and main begins
DaemonStart(d) ==
    /\ daemon[d].pc = "off"
    /\ daemon' = [daemon EXCEPT ![d].pc = "check"]
    /\ UNCHANGED <<pidFile, notSingleton>>

\* 74: pid_file.exists()
SingletonExists(d) ==
    /\ daemon[d].pc = "check"
    /\ daemon' = [daemon EXCEPT ![d].pc = IF pidFile = "none" THEN "write" ELSE "probe"]
    /\ UNCHANGED <<pidFile, notSingleton>>

\* 75-81 with main 487-491: read_text (FileNotFoundError when the file has
\* gone), int (ValueError) and os.kill; DaemonAlreadyRunning makes main return 1
SingletonProbe(d) ==
    /\ daemon[d].pc = "probe"
    /\ LET refused == /\ pidFile # "none"
                      /\ ParsePid(pidFile) # 0
                      /\ ProbeOk(ParsePid(pidFile))
       IN daemon' = [daemon EXCEPT ![d] = [pc |-> IF refused THEN "refused" ELSE "write",
                                           saw |-> pidFile,
                                           found |-> FoundBy(pidFile)]]
    /\ UNCHANGED <<pidFile, notSingleton>>

\* 82-83: pid_file.write_text(str(os.getpid())) and the atexit registration
SingletonWrite(d) ==
    /\ daemon[d].pc = "write"
    /\ pidFile' = PidText(DaemonPid(d))
    /\ daemon' = [daemon EXCEPT ![d].pc = "running"]
    /\ UNCHANGED notSingleton

\* Daemon.shutdown 464-471 and cleanup_pid_file 86-91: the file is unlinked,
\* whatever it holds, and the process exits
DaemonShutdown(d) ==
    /\ daemon[d].pc = "running"
    /\ pidFile' = "none"
    /\ daemon' = [daemon EXCEPT ![d].pc = "exited"]
    /\ UNCHANGED notSingleton

\* SIGKILL: the process is gone and no exit handler has run
DaemonKilled(d) ==
    /\ d \in LiveDaemons
    /\ daemon' = [daemon EXCEPT ![d].pc = "killed"]
    /\ UNCHANGED <<pidFile, notSingleton>>

SingletonSteps ==
    \/ \E d \in Daemons : DaemonStart(d)
    \/ \E d \in Daemons : SingletonExists(d)
    \/ \E d \in Daemons : SingletonProbe(d)
    \/ \E d \in Daemons : SingletonWrite(d)
    \/ \E d \in Daemons : DaemonShutdown(d)
    \/ \E d \in Daemons : DaemonKilled(d)

\* no daemon bookkeeping: the specifications of one daemon's inside
InitSingletonIdle ==
    /\ pidFile = "none"
    /\ daemon = [d \in Daemons |-> DaemonOff]

(***************************************************************************)
(* session_worker: pause_task_async and stop_task_session_async            *)
(***************************************************************************)
\* no pause in progress
PauserIdle == [pc |-> "idle", name |-> "none"]

\* the pid stays in the row
PausedRowKeepsPid(row) == [row EXCEPT !.status = "paused"]
\* 562-565: status paused, pid removed, add_task
PausedRow(row) == [row EXCEPT !.status = "paused", !.pid = NoPid]

\* 556-559: a marker file that can be read gets status paused
PausedMarker(m) == IF m = "none" THEN m ELSE "paused"

\* the children of the name that the OS still runs
LiveChildren(n) ==
    {k \in 1..MaxProcs : Obj(n, k) \in DOMAIN proc /\ proc[Obj(n, k)].alive}

\* what the log keeps of a pause_task_async call when it returns True
PauseEntry(n, reg, markers) ==
    [name |-> n, children |-> LiveChildren(n), pid |-> reg[n].pid,
     status |-> reg[n].status, had_marker |-> markerStatus[n] # "none",
     marker |-> markers[n]]

\* pause_task_async 543-553 with stop_task_session_async 514-527, called
\* while no user text is being routed: no row returns False (not a step); a
\* task that is not running is marked paused at once, otherwise stop_process
\* is awaited first
PauseBegin(n) ==
    /\ opPc \in {"running", "failed"}
    /\ pauser.pc = "idle"
    /\ sender.pc = "idle"
    /\ Len(pauseLog) < MaxPauses
    /\ n \in DOMAIN registry
    /\ stopPc[n].pc = "none"
    /\ IF IsRunning(n)
       THEN /\ pauser' = [pc |-> "stopping", name |-> n]
            /\ stopPc' = [stopPc EXCEPT ![n] = [pc |-> "scheduled", k |-> processes[n]]]
            /\ UNCHANGED <<registry, pauseLog>>
            /\ UNCHANGED markerStatus
       ELSE LET reg == [registry EXCEPT ![n] = PausedRow(@)]
                markers == [markerStatus EXCEPT ![n] = PausedMarker(@)]
            IN /\ registry' = reg
               /\ markerStatus' = markers
               /\ pauseLog' = Append(pauseLog, PauseEntry(n, reg, markers))
               /\ UNCHANGED <<pauser, stopPc>>
    /\ UNCHANGED <<brokerVars, supVars, spawner, spawnLog, nSpawns, shutdown, aeDone,
                   yieldsAfter, stopAll, osPid, cleanLog, sysButPause>>

\* 553-572: stop_process has returned or raised (the exception is logged);
\* the row is marked paused and loses its pid
PauseFinish ==
    /\ pauser.pc = "stopping"
    /\ stopPc[pauser.name].pc \in {"done", "raised"}
    /\ pauser.name \in DOMAIN registry
    /\ LET reg == [registry EXCEPT ![pauser.name] = PausedRow(@)]
           markers == [markerStatus EXCEPT ![pauser.name] = PausedMarker(@)]
       IN /\ registry' = reg
          /\ markerStatus' = markers
          /\ pauseLog' = Append(pauseLog, PauseEntry(pauser.name, reg, markers))
    /\ stopPc' = [stopPc EXCEPT ![pauser.name] = StopIdle]
    /\ pauser' = PauserIdle
    /\ UNCHANGED <<brokerVars, supVars, spawner, spawnLog, nSpawns, shutdown, aeDone,
                   yieldsAfter, stopAll, osPid, cleanLog, sysButPause>>

InitPauseIdle ==
    /\ pauser = PauserIdle
    /\ pauseLog = << >>
    /\ markerStatus = [n \in Names |-> IF n = "operator" THEN "none" ELSE "active"]

(***************************************************************************)
(* session_worker: spawn_worktree_task_async and spawn_session_async       *)
(***************************************************************************)
\* the task the user asks for, and the two kinds of task
NewTask == "w1"
TaskKinds == {"worktree", "session"}

\* no creation in progress
WorkerIdle == [pc |-> "idle", kind |-> "none", base |-> 0, failed |-> "none"]

\* the row spawn_*_async writes before it spawns the process
NewTaskRow == [session_id |-> NoSession, pid |-> NoPid, path |-> "/w1",
               status |-> "active"]

\* what write_marker_file_pending leaves in the directory
PendingMarkerMissing == "none"
PendingMarker == "pending"

\* what the log keeps of a creation when the call ends
CreateEntry(w, ret, th, dir, reg) ==
    [kind |-> w.kind, failed |-> w.failed, ret |-> ret, thread |-> th,
     dir |-> dir, has_row |-> NewTask \in DOMAIN reg]

\* 267-277, 368-382: a name without a row (and, for a session task, an
\* existing directory and no running process); create_worktree makes the
\* directory or reuses it
WorkerBegin(kind) ==
    /\ opPc \in {"running", "failed"}
    /\ wk.pc = "idle"
    /\ spawner.pc = "idle"
    /\ pauser.pc = "idle"
    /\ Len(createLog) < MaxCreates
    /\ NewTask \notin DOMAIN registry
    /\ kind = "session" => taskDir /\ ~IsRunning(NewTask)
    /\ taskDir' = TRUE
    /\ wk' = [WorkerIdle EXCEPT !.pc = "pending", !.kind = kind]
    /\ UNCHANGED <<marker, thread, createLog, brokerVars, registry, supVars, extVars,
                   sysButWorker>>

\* _create_task_topic_safely 139-140: write_marker_file_pending
WorkerWritePending ==
    /\ wk.pc = "pending"
    /\ marker' = PendingMarker
    /\ wk' = [wk EXCEPT !.pc = "topic"]
    /\ UNCHANGED <<taskDir, thread, createLog, brokerVars, registry, supVars, extVars,
                   sysButWorker>>

\* _create_task_topic_safely 143-147: create_forum_topic; on TopicCreationError
\* a worktree task deletes its worktree (290-292) and the exception goes to
\* the caller, a session task only lets it go (386-392)
WorkerCreateTopic(ok) ==
    /\ wk.pc = "topic"
    /\ IF ok
       THEN /\ thread' = "open"
            /\ wk' = [wk EXCEPT !.pc = "welcome"]
            /\ UNCHANGED <<taskDir, marker, createLog>>
       ELSE LET dir == IF wk.kind = "worktree" THEN FALSE ELSE taskDir
                mk == IF wk.kind = "worktree" THEN "none" ELSE marker
            IN /\ taskDir' = dir
               /\ marker' = mk
               /\ createLog' = Append(createLog,
                                      CreateEntry([wk EXCEPT !.failed = "topic"],
                                                  "raised", thread, dir, registry))
               /\ wk' = WorkerIdle
               /\ UNCHANGED thread
    /\ UNCHANGED <<brokerVars, registry, supVars, extVars, sysButWorker>>

\* _create_task_topic_safely 149-151: the welcome message
WorkerWelcome ==
    /\ wk.pc = "welcome"
    /\ wk' = [wk EXCEPT !.pc = "complete"]
    /\ UNCHANGED <<taskDir, marker, thread, createLog, brokerVars, registry, supVars,
                   extVars, sysButWorker>>

\* _create_task_topic_safely 153-162: write_marker_file with the topic id
WorkerCompleteMarker ==
    /\ wk.pc = "complete"
    /\ marker' = "complete"
    /\ wk' = [wk EXCEPT !.pc = "row"]
    /\ UNCHANGED <<taskDir, thread, createLog, brokerVars, registry, supVars, extVars,
                   sysButWorker>>

\* 294-305, 394-405: the row is added before the process is spawned
WorkerAddRow ==
    /\ wk.pc = "row"
    /\ registry' = DictPut(registry, NewTask, NewTaskRow)
    /\ wk' = [wk EXCEPT !.pc = "spawning", !.base = Len(spawnLog)]
    /\ UNCHANGED <<taskDir, marker, thread, createLog, brokerVars, supVars, extVars,
                   sysButWorker>>

\* 317-321, 417-421: await pm.spawn_process
WorkerSpawnCall ==
    /\ wk.pc = "spawning"
    /\ Len(spawnLog) = wk.base
    /\ SpawnCall("spawn", NewTask)

\* 322-325, 422-425: spawn_process has returned a process, started or not:
\* the row gets the process's session id and pid and the call returns it
WorkerSpawnReturned ==
    /\ wk.pc = "spawning"
    /\ spawner.pc = "idle"
    /\ Len(spawnLog) > wk.base
    /\ spawnLog[Len(spawnLog)].ret = "ok"
    /\ LET call == spawnLog[Len(spawnLog)]
           obj == Obj(NewTask, call.k)
           reg == DictPut(registry, NewTask,
                          [NewTaskRow EXCEPT !.session_id = proc[obj].session_id,
                                             !.pid = IF call.start_ok THEN PidOf(obj)
                                                     ELSE NoPid])
           w == [wk EXCEPT !.failed = IF call.start_ok THEN "none" ELSE "start"]
       IN /\ registry' = reg
          /\ createLog' = Append(createLog,
                                 CreateEntry(w, "task_data", thread, taskDir, reg))
    /\ wk' = WorkerIdle
    /\ UNCHANGED <<taskDir, marker, thread, brokerVars, supVars, extVars, sysButWorker>>

\* 326-330, 426-430: spawn_process has raised; the topic is closed first
WorkerRollbackTopic ==
    /\ wk.pc = "spawning"
    /\ spawner.pc = "idle"
    /\ Len(spawnLog) > wk.base
    /\ spawnLog[Len(spawnLog)].ret # "ok"
    /\ thread' = "closed"
    /\ wk' = [wk EXCEPT !.pc = "rollback", !.failed = "spawn"]
    /\ UNCHANGED <<taskDir, marker, createLog, brokerVars, registry, supVars, extVars,
                   sysButWorker>>

\* 331-333, 431-432: a worktree task deletes its worktree, the marker with it;
\* the row is removed and the call returns None
WorkerRollbackRest ==
    /\ wk.pc = "rollback"
    /\ LET dir == IF wk.kind = "worktree" THEN FALSE ELSE taskDir
           reg == DictPop(registry, NewTask)
       IN /\ taskDir' = dir
          /\ marker' = IF wk.kind = "worktree" THEN "none" ELSE marker
          /\ registry' = reg
          /\ createLog' = Append(createLog, CreateEntry(wk, "none", thread, dir, reg))
    /\ wk' = WorkerIdle
    /\ UNCHANGED <<thread, brokerVars, supVars, extVars, sysButWorker>>

\* another caller of the process manager, while no task is being created
SpawnBeforeCreate(op, n) == wk.pc = "idle" /\ SpawnCall(op, n)

WorkerSteps ==
    \/ \E kind \in TaskKinds : WorkerBegin(kind)
    \/ WorkerWritePending
    \/ \E ok \in BOOLEAN : WorkerCreateTopic(ok)
    \/ WorkerWelcome
    \/ WorkerCompleteMarker
    \/ WorkerAddRow
    \/ WorkerSpawnCall
    \/ WorkerSpawnReturned
    \/ WorkerRollbackTopic
    \/ WorkerRollbackRest
    \/ \E n \in Names : SpawnBeforeCreate("spawn", n)
    \/ \E ok \in BOOLEAN : SpawnStarted(ok)
    \/ SpawnDrained

InitWorkerIdle ==
    /\ wk = WorkerIdle
    /\ taskDir = FALSE
    /\ marker = "none"
    /\ thread = "none"
    /\ createLog = << >>

(***************************************************************************)
(* registry: _write_json and _read_json (registry.py is not part of the    *)
(* sources; modelled from the specification's section 4.A and from         *)
(* tests/test_registry.py)                                                 *)
(***************************************************************************)
\* a JSON document is written and read in two pieces; the documents a caller
\* may write, and the parts of one that a file can hold
Docs == {"A", "B"}
Doc(d) == <<d, d>>
Complete == {Doc(d) : d \in Docs}
NoFile == 0

\* nobody writes, nobody reads
WriterIdle == [pc |-> "idle", doc |-> "none", before |-> << >>]
ReaderIdle == [pc |-> "idle", fd |-> NoFile, got |-> << >>, during |-> {}]

\* the file a write fills: the registry file itself, opened for writing
TempInPlace(new) == regFile
\* the file a write fills: a new temporary file in the same directory
Temp(new) == new

\* the content of the registry file, as a reader opening it now would get it
RegContent == IF regFile = NoFile THEN << >> ELSE inodes[regFile]

\* _write_json: the writer, holding the store's lock, opens the file it fills
WriteJsonBegin(d) ==
    /\ fwriter.pc = "idle"
    /\ Len(writeLog) < MaxWrites
    /\ LET t == Temp(nextInode)
       IN /\ inodes' = DictPut(inodes, t, << >>)
          /\ tmpFile' = t
    /\ nextInode' = nextInode + 1
    /\ fwriter' = [pc |-> "writing", doc |-> d, before |-> RegContent]
    /\ UNCHANGED <<regFile, freader, writeLog, readLog>>
    /\ UNCHANGED <<brokerVars, registry, supVars, extVars, sysButFile>>

\* _write_json: one more piece of the document reaches the file
WriteJsonPiece ==
    /\ fwriter.pc = "writing"
    /\ Len(inodes[tmpFile]) < Len(Doc(fwriter.doc))
    /\ inodes' = [inodes EXCEPT ![tmpFile] =
                    Append(@, Doc(fwriter.doc)[Len(@) + 1])]
    /\ UNCHANGED <<regFile, tmpFile, nextInode, fwriter, freader, writeLog, readLog>>
    /\ UNCHANGED <<brokerVars, registry, supVars, extVars, sysButFile>>

\* _write_json: os.rename(temp, path) puts the temporary file in the place of
\* the registry file in one step, or fails with OSError: the temporary file
\* is unlinked and the error goes to the caller
WriteJsonRename(ok) ==
    /\ fwriter.pc = "writing"
    /\ Len(inodes[tmpFile]) = Len(Doc(fwriter.doc))
    /\ regFile' = IF ok THEN tmpFile ELSE regFile
    /\ tmpFile' = NoFile
    /\ writeLog' = Append(writeLog,
                          [ret |-> IF ok THEN "ok" ELSE "oserror",
                           doc |-> fwriter.doc, before |-> fwriter.before,
                           after |-> IF ok THEN inodes[tmpFile] ELSE RegContent])
    /\ freader' = IF freader.pc = "idle" THEN freader
                  ELSE [freader EXCEPT !.during =
                          @ \cup {IF ok THEN inodes[tmpFile] ELSE RegContent}]
    /\ fwriter' = WriterIdle
    /\ UNCHANGED <<inodes, nextInode, readLog>>
    /\ UNCHANGED <<brokerVars, registry, supVars, extVars, sysButFile>>

\* _read_json, in this or another process: open the file
ReadJsonOpen ==
    /\ freader.pc = "idle"
    /\ Len(readLog) < MaxReads
    /\ freader' = [pc |-> "reading", fd |-> regFile, got |-> << >>,
                   during |-> {RegContent}]
    /\ UNCHANGED <<inodes, regFile, tmpFile, nextInode, fwriter, writeLog, readLog>>
    /\ UNCHANGED <<brokerVars, registry, supVars, extVars, sysButFile>>

\* _read_json: the next piece of the open file, if the file has one
ReadJsonPiece ==
    /\ freader.pc = "reading"
    /\ freader.fd # NoFile
    /\ Len(freader.got) < Len(inodes[freader.fd])
    /\ freader' = [freader EXCEPT !.got = Append(@, inodes[freader.fd][Len(@) + 1])]
    /\ UNCHANGED <<inodes, regFile, tmpFile, nextInode, fwriter, writeLog, readLog>>
    /\ UNCHANGED <<brokerVars, registry, supVars, extVars, sysButFile>>

\* _read_json: end of file
ReadJsonEnd ==
    /\ freader.pc = "reading"
    /\ freader.fd = NoFile \/ Len(freader.got) = Len(inodes[freader.fd])
    /\ readLog' = Append(readLog, [got |-> freader.got, during |-> freader.during])
    /\ freader' = ReaderIdle
    /\ UNCHANGED <<inodes, regFile, tmpFile, nextInode, fwriter, writeLog>>
    /\ UNCHANGED <<brokerVars, registry, supVars, extVars, sysButFile>>

FileSteps ==
    \/ \E d \in Docs : WriteJsonBegin(d)
    \/ WriteJsonPiece
    \/ \E ok \in BOOLEAN : WriteJsonRename(ok)
    \/ ReadJsonOpen
    \/ ReadJsonPiece
    \/ ReadJsonEnd

\* the registry file of an earlier run, complete, and no call in progress
InitFileIdle ==
    /\ inodes = [i \in {1} |-> Doc("A")]
    /\ regFile = 1
    /\ tmpFile = NoFile
    /\ nextInode = 2
    /\ fwriter = WriterIdle
    /\ freader = ReaderIdle
    /\ writeLog = << >>
    /\ readLog = << >>

(***************************************************************************)
(* PermissionManager._lock: who holds it, and where each thread stands     *)
(***************************************************************************)
\* the HTTP threads in request_permission, each with its tool_use_id, and the
\* threads that call respond, register_telegram_msg and get_pending
ReqThreads == {"q1", "q2"}
Callers == {"c1", "c2"}
IdOf(q) == IF q = "q1" THEN "T1" ELSE "T2"
LockOps == {"respond", "register_telegram_msg", "get_pending"}
Free == "free"

ThreadIdle == [pc |-> "idle", op |-> "none", id |-> "none"]

\* the lock is kept after the insert
KeptAfterInsert(q) == q
\* line 100-101: the with block ends after the insert
AfterInsert(q) == Free

\* 91-100: a request that is not auto-allowed reaches 'with self._lock'
ReqEnter(q) ==
    /\ thPc[q].pc = "idle"
    /\ thPc' = [thPc EXCEPT ![q] = [pc |-> "want_insert", op |-> "request_permission",
                                    id |-> IdOf(q)]]
    /\ UNCHANGED <<lock, lkPending, lkSlot, nLockCalls>>
    /\ UNCHANGED <<brokerVars, registry, supVars, extVars, sysButLock>>

\* 100: threading.Lock.acquire, which blocks while another thread, or this
\* one, holds the lock
ReqLockInsert(q) ==
    /\ thPc[q].pc = "want_insert"
    /\ lock = Free
    /\ lock' = q
    /\ thPc' = [thPc EXCEPT ![q].pc = "inserting"]
    /\ UNCHANGED <<lkPending, lkSlot, nLockCalls>>
    /\ UNCHANGED <<brokerVars, registry, supVars, extVars, sysButLock>>

\* 101-106: the entry is inserted, the with block ends, the loop is signalled
\* (which does not block), and the thread goes to wait on its reply slot
ReqInsert(q) ==
    /\ thPc[q].pc = "inserting"
    /\ lkPending' = lkPending \cup {IdOf(q)}
    /\ lock' = AfterInsert(q)
    /\ thPc' = [thPc EXCEPT ![q].pc = "waiting"]
    /\ UNCHANGED <<lkSlot, nLockCalls>>
    /\ UNCHANGED <<brokerVars, registry, supVars, extVars, sysButLock>>

\* 110-116: response_queue.get returns a reply, or queue.Empty after 300 s
ReqWake(q) ==
    /\ thPc[q].pc = "waiting"
    /\ lkSlot' = [lkSlot EXCEPT ![IdOf(q)] = IF @ > 0 THEN @ - 1 ELSE @]
    /\ thPc' = [thPc EXCEPT ![q].pc = "want_cleanup"]
    /\ UNCHANGED <<lock, lkPending, nLockCalls>>
    /\ UNCHANGED <<brokerVars, registry, supVars, extVars, sysButLock>>

\* 120: the finally block's 'with self._lock'
ReqLockCleanup(q) ==
    /\ thPc[q].pc = "want_cleanup"
    /\ lock = Free
    /\ lock' = q
    /\ thPc' = [thPc EXCEPT ![q].pc = "cleaning"]
    /\ UNCHANGED <<lkPending, lkSlot, nLockCalls>>
    /\ UNCHANGED <<brokerVars, registry, supVars, extVars, sysButLock>>

\* 121-125: the entry is removed, the with block ends, the call returns
ReqCleanup(q) ==
    /\ thPc[q].pc = "cleaning"
    /\ lkPending' = lkPending \ {IdOf(q)}
    /\ lock' = Free
    /\ thPc' = [thPc EXCEPT ![q].pc = "done"]
    /\ UNCHANGED <<lkSlot, nLockCalls>>
    /\ UNCHANGED <<brokerVars, registry, supVars, extVars, sysButLock>>

\* 132, 157, 166: another thread calls respond, register_telegram_msg or
\* get_pending and reaches 'with self._lock'
CallEnter(c, op, id) ==
    /\ thPc[c].pc = "idle"
    /\ nLockCalls < MaxLockCalls
    /\ nLockCalls' = nLockCalls + 1
    /\ thPc' = [thPc EXCEPT ![c] = [pc |-> "want", op |-> op, id |-> id]]
    /\ UNCHANGED <<lock, lkPending, lkSlot>>
    /\ UNCHANGED <<brokerVars, registry, supVars, extVars, sysButLock>>

\* threading.Lock.acquire
CallLock(c) ==
    /\ thPc[c].pc = "want"
    /\ lock = Free
    /\ lock' = c
    /\ thPc' = [thPc EXCEPT ![c].pc = "locked"]
    /\ UNCHANGED <<lkPending, lkSlot, nLockCalls>>
    /\ UNCHANGED <<brokerVars, registry, supVars, extVars, sysButLock>>

\* 133-136, 158-162, 167: the body of the with block, which only reads and
\* writes the tables; respond goes on to the put if it found the entry
CallBody(c) ==
    /\ thPc[c].pc = "locked"
    /\ lock' = Free
    /\ thPc' = IF thPc[c].op = "respond" /\ thPc[c].id \in lkPending
               THEN [thPc EXCEPT ![c].pc = "put"]
               ELSE [thPc EXCEPT ![c] = ThreadIdle]
    /\ UNCHANGED <<lkPending, lkSlot, nLockCalls>>
    /\ UNCHANGED <<brokerVars, registry, supVars, extVars, sysButLock>>

\* 138-140: respond fulfils the slot outside the lock
CallPut(c) ==
    /\ thPc[c].pc = "put"
    /\ lkSlot' = [lkSlot EXCEPT ![thPc[c].id] = @ + 1]
    /\ thPc' = [thPc EXCEPT ![c] = ThreadIdle]
    /\ UNCHANGED <<lock, lkPending, nLockCalls>>
    /\ UNCHANGED <<brokerVars, registry, supVars, extVars, sysButLock>>

LockSteps ==
    \/ \E q \in ReqThreads : ReqEnter(q)
    \/ \E q \in ReqThreads : ReqLockInsert(q)
    \/ \E q \in ReqThreads : ReqInsert(q)
    \/ \E q \in ReqThreads : ReqWake(q)
    \/ \E q \in ReqThreads : ReqLockCleanup(q)
    \/ \E q \in ReqThreads : ReqCleanup(q)
    \/ \E c \in Callers, op \in LockOps, id \in ToolIds : CallEnter(c, op, id)
    \/ \E c \in Callers : CallLock(c)
    \/ \E c \in Callers : CallBody(c)
    \/ \E c \in Callers : CallPut(c)

\* the lock as __init__ leaves it, and no thread in the broker
InitLockIdle ==
    /\ lock = Free
    /\ thPc = [t \in ReqThreads \cup Callers |-> ThreadIdle]
    /\ lkPending = {}
    /\ lkSlot = [id \in ToolIds |-> 0]
    /\ nLockCalls = 0

(***************************************************************************)
(* permission_hook: main and request_permission                            *)
(***************************************************************************)
(* TelegramAdapter: the poll cursor (the Config store is not part of the    *)
(* sources; set and get are modelled from the specification)               *)
(***************************************************************************)
UpdateKinds == {"message", "callback", "topic"}

PollerOff == [pc |-> "off", offset |-> 0, batch |-> << >>, cur |-> 0]

InitPollIdle ==
    /\ updates = [u \in 1..MaxUpdates |-> "message"]
    /\ arrived = 0
    /\ cfgOffset = 0
    /\ poller = PollerOff
    /\ handed = << >>
    /\ nCrashes = 0

\* the chat server receives one more update
UpdateArrives ==
    /\ arrived < MaxUpdates
    /\ arrived' = arrived + 1
    /\ UNCHANGED <<updates, cfgOffset, poller, handed, nCrashes>>
    /\ UNCHANGED <<brokerVars, registry, supVars, extVars, sysButPoll>>

\* the answer of getUpdates: the updates from the offset on, in order
GetUpdates(offset) ==
    LET from == IF offset < 1 THEN 1 ELSE offset
    IN [i \in 1..(IF arrived < from THEN 0 ELSE arrived - from + 1) |-> from + i - 1]

\* __init__ 51-53: the daemon starts and the adapter loads the stored offset
PollStart ==
    /\ poller.pc = "off"
    /\ poller' = [PollerOff EXCEPT !.pc = "poll", !.offset = cfgOffset]
    /\ UNCHANGED <<updates, arrived, cfgOffset, handed, nCrashes>>
    /\ UNCHANGED <<brokerVars, registry, supVars, extVars, sysButPoll>>

\* 271-291: one getUpdates call with self.offset
PollFetch ==
    /\ poller.pc = "poll"
    /\ LET got == GetUpdates(poller.offset) IN
       poller' = [poller EXCEPT !.batch = got,
                                !.pc = IF got = << >> THEN "poll" ELSE "batch"]
    /\ UNCHANGED <<updates, arrived, cfgOffset, handed, nCrashes>>
    /\ UNCHANGED <<brokerVars, registry, supVars, extVars, sysButPoll>>

\* 301: get_config().set("telegram_offset", self.offset)
StoredOffset(old, new) == new

\* 293-301: the next update of the batch: self.offset is set past it and
\* stored
PollPersist ==
    /\ poller.pc = "batch"
    /\ LET u == Head(poller.batch) IN
        /\ poller' = [poller EXCEPT !.offset = u + 1, !.cur = u,
                                    !.batch = Tail(@), !.pc = "stored"]
        /\ cfgOffset' = StoredOffset(cfgOffset, u + 1)
    /\ UNCHANGED <<updates, arrived, handed, nCrashes>>
    /\ UNCHANGED <<brokerVars, registry, supVars, extVars, sysButPoll>>

\* 303-323: a topic creation is stored as a mapping and not yielded; a
\* callback or a message is yielded to the orchestrator
PollYield ==
    /\ poller.pc = "stored"
    /\ handed' = IF updates[poller.cur] = "topic" THEN handed
                 ELSE Append(handed, poller.cur)
    /\ poller' = [poller EXCEPT !.cur = 0,
                                !.pc = IF poller.batch = << >> THEN "poll" ELSE "batch"]
    /\ UNCHANGED <<updates, arrived, cfgOffset, nCrashes>>
    /\ UNCHANGED <<brokerVars, registry, supVars, extVars, sysButPoll>>

\* the daemon is killed, or its signal handler calls os._exit, wherever the
\* poller is; what the process held in memory is gone
PollCrash ==
    /\ poller.pc # "off"
    /\ nCrashes < MaxCrashes
    /\ nCrashes' = nCrashes + 1
    /\ poller' = PollerOff
    /\ UNCHANGED <<updates, arrived, cfgOffset, handed>>
    /\ UNCHANGED <<brokerVars, registry, supVars, extVars, sysButPoll>>

PollSteps ==
    \/ UpdateArrives
    \/ PollStart
    \/ PollFetch
    \/ PollPersist
    \/ PollYield
    \/ PollCrash

(***************************************************************************)
\* what the hook finds on stdin, what requests.post does, and the decision
\* field of the body the server sends with status 200
HookStdins == {"valid", "invalid_json", "missing_fields"}
HttpOutcomes == {"ok", "connection_error", "connect_timeout", "read_timeout",
                 "http_error", "body_not_json", "other_request_error"}
BodyDecisions == {"allow", "deny", "maybe", "absent"}

\* requests.ConnectTimeout derives from ConnectionError and from Timeout; the
\* except clause for ConnectionError comes first
IsConnectionError(http) == http \in {"connection_error", "connect_timeout"}

\* the handler of ConnectionError returns a denial
OnConnectionErrorDeny == <<"return", "deny", "Permission server not running">>
\* 68-70: raise RuntimeError("Permission server not running")
OnConnectionError == <<"raise", "RuntimeError", "Permission server not running">>

\* request_permission 56-80: what the call returns or raises
HookRequestPermission(http, body) ==
    IF IsConnectionError(http) THEN OnConnectionError
    ELSE IF http = "read_timeout"
    THEN <<"return", "deny", "Permission request timed out">>
    ELSE IF http = "http_error"
    THEN <<"raise", "RuntimeError", "Permission server error">>
    ELSE IF http = "body_not_json"
    THEN <<"raise", "RuntimeError", "Invalid JSON">>
    ELSE IF http = "other_request_error"
    THEN <<"raise", "RequestException", "">>
    ELSE IF body \notin {"allow", "deny"}
    THEN <<"raise", "RuntimeError", "Invalid decision: " \o body>>
    ELSE <<"return", body, "reason">>

\* what the hook writes on stdout: no decision (passthrough), a decision, or
\* nothing at all
NoOutput == [decision |-> "nothing", reason |-> ""]
PassthroughResponse == [decision |-> "passthrough", reason |-> ""]
PermissionResponse(decision, reason) == [decision |-> decision, reason |-> reason]

\* 85-87: a session the daemon does not manage passes through
HookStart ==
    /\ hook.pc = "start"
    /\ hook' = IF hook.managed
               THEN [hook EXCEPT !.pc = "parse"]
               ELSE [hook EXCEPT !.pc = "exited", !.out = PassthroughResponse,
                                 !.exit = 0]
    /\ UNCHANGED <<brokerVars, registry, supVars, extVars, sysButHook>>

\* 90-107: stdin that is not JSON is allowed, missing fields are denied
HookParse ==
    /\ hook.pc = "parse"
    /\ hook' = IF hook.stdin = "invalid_json"
               THEN [hook EXCEPT !.pc = "exited", !.exit = 0,
                       !.out = PermissionResponse("allow", "Invalid hook input")]
               ELSE IF hook.stdin = "missing_fields"
               THEN [hook EXCEPT !.pc = "exited", !.exit = 0,
                       !.out = PermissionResponse("deny", "Missing required fields")]
               ELSE [hook EXCEPT !.pc = "post"]
    /\ UNCHANGED <<brokerVars, registry, supVars, extVars, sysButHook>>

\* 110-113: request_permission posts to the server and returns or raises
HookPost ==
    /\ hook.pc = "post"
    /\ hook' = [hook EXCEPT !.pc = "posted", !.posted = TRUE,
                            !.got = HookRequestPermission(hook.http, hook.body)]
    /\ UNCHANGED <<brokerVars, registry, supVars, extVars, sysButHook>>

\* 114-121: the decision is written; a RuntimeError is logged and allowed; any
\* other exception leaves main, and the interpreter exits with 1
HookFinish ==
    /\ hook.pc = "posted"
    /\ hook' = IF hook.got[1] = "return"
               THEN [hook EXCEPT !.pc = "exited", !.exit = 0,
                       !.out = PermissionResponse(hook.got[2], hook.got[3])]
               ELSE IF hook.got[2] = "RuntimeError"
               THEN [hook EXCEPT !.pc = "exited", !.exit = 0,
                       !.out = PermissionResponse("allow", hook.got[3])]
               ELSE [hook EXCEPT !.pc = "exited", !.exit = 1]
    /\ UNCHANGED <<brokerVars, registry, supVars, extVars, sysButHook>>

HookSteps ==
    \/ HookStart
    \/ HookParse
    \/ HookPost
    \/ HookFinish

\* one run of the hook, on the given environment, stdin and server
HookRun(managed, stdin, http, body) ==
    [pc |-> "start", managed |-> managed, stdin |-> stdin, http |-> http,
     body |-> body, posted |-> FALSE, got |-> <<"none", "", "">>, out |-> NoOutput,
     exit |-> -1]

\* no tool call is being checked
InitHookIdle == hook = [HookRun(FALSE, "valid", "ok", "allow") EXCEPT !.pc = "off"]

\* no daemon bookkeeping and no task operation: the specifications of one
\* daemon's inside
InitSys ==
    /\ InitSingletonIdle
    /\ InitPauseIdle
    /\ InitWorkerIdle
    /\ InitFileIdle
    /\ InitLockIdle
    /\ InitHookIdle
    /\ InitMonitorIdle
    /\ InitTermIdle
    /\ InitPollIdle

InitSupervisor ==
    /\ processes = EmptyDict
    /\ event_tasks = EmptyDict
    /\ monitors = {}
    /\ mgr_queue = << >>
    /\ proc = EmptyDict
    /\ nProcs = [n \in Names |-> 0]
    /\ emitted = [n \in Names |-> 0]
    /\ delivered = [n \in Names |-> << >>]
    /\ sender = SenderIdle
    /\ sendLog = << >>
    /\ nSends = 0
    /\ opPc = "init"
    /\ opDrain = "none"
    /\ spawner = SpawnerIdle
    /\ spawnLog = << >>
    /\ nSpawns = 0
    /\ shutdown = FALSE
    /\ aeDone = FALSE
    /\ yieldsAfter = 0
    /\ stopAll = "idle"
    /\ stopPc = [n \in Names |-> StopIdle]
    /\ cleanLog = << >>

Init ==
    /\ InitBroker
    /\ InitSupervisor
    /\ InitSys
    /\ registry = InitRegistry
    /\ osPid = NoStalePids

\* Daemon.start and the threads of request_permission
RequestSteps ==
    \/ SetEventLoop
    \/ StartPermissionServer
    \/ \E id \in ToolIds, t \in ToolNames, s \in Sessions : RequestInsert(id, t, s)
    \/ \E id \in ToolIds : RequestSignal(id)
    \/ \E id \in ToolIds : RequestWakeResponse(id)
    \/ \E id \in ToolIds : RequestTimeout(id)
    \/ \E id \in ToolIds : RequestCleanup(id)

\* request_permission against concurrent respond() threads
NextBroker ==
    \/ RequestSteps
    \/ \E r \in Responders, id \in ToolIds, d \in Decisions : RespondLookup(r, id, d)
    \/ \E r \in Responders : RespondPut(r)

SpecBroker == Init /\ [][NextBroker]_vars

\* the daemon: requests, the notification loop, and the callback handler, which
\* runs on the event loop and so issues its respond() calls one at a time
NextNotify ==
    \/ RequestSteps
    \/ \E id \in ToolIds, d \in Decisions : RespondLookup("r1", id, d)
    \/ RespondPut("r1")
    \/ \E id \in ToolIds : DuplicateSignal(id)
    \/ NotifyCheck
    \/ \E ok \in BOOLEAN : NotifySend(ok)
    \/ NotifyRegister

SpecNotify == Init /\ [][NextNotify]_vars

\* requests beside the callback handler's responds and the loop's registrations
NextLive ==
    \/ RequestSteps
    \/ \E id \in ToolIds, d \in Decisions : RespondLookup("r1", id, d)
    \/ RespondPut("r1")
    \/ NotifyCheck
    \/ \E ok \in BOOLEAN : NotifySend(ok)
    \/ NotifyRegister

\* OS threads are scheduled fairly and the timed wait does expire
FairBroker ==
    /\ \A id \in ToolIds : WF_vars(RequestSignal(id))
    /\ \A id \in ToolIds : WF_vars(RequestWakeResponse(id) \/ RequestTimeout(id))
    /\ \A id \in ToolIds : WF_vars(RequestCleanup(id))

SpecBrokerFair == Init /\ [][NextLive]_vars /\ FairBroker

\* the event loop runs the notification loop whenever it has something to do
FairNotify ==
    /\ WF_vars(NotifyCheck)
    /\ WF_vars(\E ok \in BOOLEAN : NotifySend(ok))
    /\ WF_vars(NotifyRegister)

SpecNotifyFair == SpecBrokerFair /\ FairNotify

(***************************************************************************)
(* The supervisor's specification: the daemon starts its operator, then     *)
(* routes user texts and forwards the agents' events                        *)
(***************************************************************************)
\* the registry a starting daemon may find: a worker row from an earlier run,
\* with or without an operator row
InitRegistries ==
    {InitRegistry,
     DictPut(InitRegistry, "operator",
             [session_id |-> "S0", pid |-> NoPid, path |-> "/home",
              status |-> "active"])}

InitSup ==
    /\ InitBroker
    /\ InitSupervisor
    /\ InitSys
    /\ registry \in InitRegistries
    /\ osPid = NoStalePids

Objs == {Obj(n, k) : n \in Names, k \in 1..MaxProcs}

Lines == {"init", "assistant", "result", "junk", "eof"}

OperatorSteps ==
    \/ OpBegin
    \/ \E ok \in BOOLEAN : OpResumeStarted(ok)
    \/ \E ok \in BOOLEAN : OpNewStarted(ok)
    \/ OpSendPrompt
    \/ OpDrainEvent
    \/ OpDrainTimeout

EventSteps ==
    \/ \E obj \in Objs : ChildExit(obj)
    \/ \E obj \in Objs, kind \in Lines : ReadStdout(obj, kind)
    \/ \E obj \in Objs : MonitorForward(obj)
    \/ Deliver

\* the steps of a send_to_process call that has been entered
SendCallSteps ==
    \/ SendDirect
    \/ SendCancelMonitor
    \/ SendUnknown
    \/ SendResurrect
    \/ \E ok \in BOOLEAN : SendStarted(ok)
    \/ \E ok \in BOOLEAN : SendDrained(ok)

SendSteps ==
    \/ \E task \in Names \cup UnknownNames : RouteMessage(task)
    \/ SendCallSteps

NextSup == OperatorSteps \/ EventSteps \/ SendSteps

SpecSup == InitSup /\ [][NextSup]_vars

\* the same daemon with children that write nothing on their stdout
QuietSteps ==
    \/ \E obj \in Objs : ChildExit(obj)
    \/ \E obj \in Objs : ReadStdout(obj, "eof")
    \/ \E obj \in Objs : MonitorForward(obj)

NextSend == OperatorSteps \/ QuietSteps \/ SendSteps

SpecSend == InitSup /\ [][NextSend]_vars

\* the daemon with callers that spawn and resume workers; the children write
\* nothing on their stdout
NextPool == OperatorSteps \/ QuietSteps \/ SpawnSteps

SpecPool == InitSup /\ [][NextPool]_vars

\* the daemon with routed messages, stops, and pooled objects whose events()
\* may raise; the children write nothing on their stdout
CrashSteps ==
    \/ \E obj \in Objs : MonitorRaise(obj)
    \/ Deliver

NextCrash == OperatorSteps \/ QuietSteps \/ SendSteps \/ StopSteps \/ CrashSteps

SpecCrash == InitSup /\ [][NextCrash]_vars

\* the daemon with callers that spawn and resume workers and with routed
\* messages; the children write nothing on their stdout
NextMix == OperatorSteps \/ QuietSteps \/ SpawnSteps \/ SendSteps

SpecMix == InitSup /\ [][NextMix]_vars

\* the poller of a daemon that is stopped and started again, for every
\* kind of update
InitPoll ==
    /\ InitBroker
    /\ InitSupervisor
    /\ InitSingletonIdle
    /\ InitPauseIdle
    /\ InitWorkerIdle
    /\ InitFileIdle
    /\ InitLockIdle
    /\ InitHookIdle
    /\ InitMonitorIdle
    /\ InitTermIdle
    /\ registry = InitRegistry
    /\ osPid = NoStalePids
    /\ updates \in [1..MaxUpdates -> UpdateKinds]
    /\ arrived = 0
    /\ cfgOffset = 0
    /\ poller = PollerOff
    /\ handed = << >>
    /\ nCrashes = 0

SpecPoll == InitPoll /\ [][PollSteps]_vars

\* the registry an earlier run may have left: the worker's row, and perhaps the
\* operator's, each with or without a recorded pid
StaleRegistries ==
    {[n \in DOMAIN reg |-> [reg[n] EXCEPT !.pid = pids[n]]] :
        reg \in InitRegistries, pids \in [Names -> {NoPid} \cup StalePids]}

InitCleanup ==
    /\ InitBroker
    /\ InitSupervisor
    /\ InitSys
    /\ registry \in StaleRegistries
    /\ osPid \in [StalePids -> PidStates]

\* the daemon with the crash cleanup called at any moment
NextCleanup == OperatorSteps \/ QuietSteps \/ CleanupCrashed

SpecCleanup == InitCleanup /\ [][NextCleanup]_vars

\* the PID file as an earlier run may have left it: absent, unreadable, or
\* with the pid of a daemon that was killed, which by now nothing, a process of
\* the same user or a process of another user may hold
InitSingleton ==
    /\ InitBroker
    /\ InitSupervisor
    /\ registry = InitRegistry
    /\ osPid \in [StalePids -> PidStates]
    /\ pidFile \in {"none", JunkPid} \cup {PidText(p) : p \in StalePids}
    /\ daemon = [d \in Daemons |-> DaemonOff]
    /\ InitPauseIdle
    /\ InitWorkerIdle
    /\ InitFileIdle
    /\ InitLockIdle
    /\ InitHookIdle
    /\ InitMonitorIdle
    /\ InitTermIdle
    /\ InitPollIdle

SpecSingleton == InitSingleton /\ [][SingletonSteps]_vars

\* the daemon while the user pauses tasks and writes in their threads, one
\* request after the other, and the crash cleanup runs; the children write
\* nothing on their stdout
\* a user text arrives while no pause is in progress
RouteBetweenPauses(task) == pauser.pc = "idle" /\ RouteMessage(task)

PauseSteps ==
    \/ \E n \in Names : PauseBegin(n)
    \/ PauseFinish
    \/ \E n \in Names : StopTerminateBegin(n)
    \/ \E n \in Names : StopTerminated(n)
    \/ \E n \in Names : StopCancelled(n)

NextPause ==
    \/ OperatorSteps
    \/ QuietSteps
    \/ \E task \in Names : RouteBetweenPauses(task)
    \/ SendCallSteps
    \/ PauseSteps
    \/ CleanupCrashed

SpecPause == InitSup /\ [][NextPause]_vars

\* the daemon while the user asks for a new task, in a directory that may
\* exist, with the pool as other callers may have left it; the children write
\* nothing on their stdout
InitWorker ==
    /\ InitBroker
    /\ InitSupervisor
    /\ InitSingletonIdle
    /\ InitPauseIdle
    /\ wk = WorkerIdle
    /\ taskDir \in BOOLEAN
    /\ marker = "none"
    /\ thread = "none"
    /\ createLog = << >>
    /\ InitFileIdle
    /\ InitLockIdle
    /\ InitHookIdle
    /\ InitMonitorIdle
    /\ InitTermIdle
    /\ InitPollIdle
    /\ registry \in {DictPop(reg, NewTask) : reg \in InitRegistries}
    /\ osPid = NoStalePids

NextWorker == OperatorSteps \/ QuietSteps \/ WorkerSteps

SpecWorker == InitWorker /\ [][NextWorker]_vars

\* the registry file while one caller after the other writes it and a
\* reader, in this or another process, reads it
SpecFile == Init /\ [][FileSteps]_vars

\* the threads of the broker around its lock
SpecLock == Init /\ [][LockSteps]_vars

\* OS threads are scheduled fairly, and a thread that keeps finding the lock
\* free now and then does get it
FairLock ==
    /\ \A q \in ReqThreads :
           /\ WF_vars(ReqInsert(q)) /\ WF_vars(ReqWake(q)) /\ WF_vars(ReqCleanup(q))
           /\ SF_vars(ReqLockInsert(q)) /\ SF_vars(ReqLockCleanup(q))
    /\ \A c \in Callers :
           WF_vars(CallBody(c)) /\ WF_vars(CallPut(c)) /\ SF_vars(CallLock(c))

SpecLockFair == SpecLock /\ FairLock

\* one run of the hook for every environment, stdin and answer of the server
InitHook ==
    /\ InitBroker
    /\ InitSupervisor
    /\ InitSingletonIdle
    /\ InitPauseIdle
    /\ InitWorkerIdle
    /\ InitFileIdle
    /\ InitLockIdle
    /\ InitMonitorIdle
    /\ InitTermIdle
    /\ InitPollIdle
    /\ registry = InitRegistry
    /\ osPid = NoStalePids
    /\ \E managed \in BOOLEAN, stdin \in HookStdins, http \in HttpOutcomes,
          body \in BodyDecisions :
           hook = HookRun(managed, stdin, http, body)

SpecHook == InitHook /\ [][HookSteps]_vars

\* the daemon stopping all processes while callers spawn and resume workers;
\* the children write nothing on their stdout
NextStop == OperatorSteps \/ QuietSteps \/ SpawnSteps \/ StopSteps

SpecStop == InitSup /\ [][NextStop]_vars

\* the daemon with stops, and callers that stop processes that have no
\* subprocess; the children write nothing on their stdout
NextTerm ==
    OperatorSteps \/ QuietSteps \/ StopSteps \/ \E obj \in Objs : TerminateStopped(obj)

SpecTerm == InitSup /\ [][NextTerm]_vars

\* the daemon's event loop while the operator's child writes and stop_all runs
NextLoop == OperatorSteps \/ EventSteps \/ StopSteps \/ AllEventsTimeout

SpecLoop == InitSup /\ [][NextLoop]_vars

\* the asyncio loop runs a generator whose get has an item, and the timer of
\* wait_for fires
SpecLoopFair == SpecLoop /\ WF_vars(Deliver) /\ WF_vars(AllEventsTimeout)

(***************************************************************************)
(* Claims about the permission broker                                      *)
(***************************************************************************)
\* the broker state of a tool_use_id, read off the pending table and its slot
BrokerState(id) ==
    IF id \notin DOMAIN pending THEN "absent"
    ELSE IF wake[id] = "timeout" THEN "timed_out"
    ELSE IF wake[id] = "response" \/ response_queue[id] # << >> THEN "resolved"
    ELSE "pending"

LifecycleStep(id) ==
    LET a == BrokerState(id)
        b == BrokerState(id)'
    IN \/ a = b
       \/ a = "absent" /\ b = "pending" /\ reqPc[id] = "idle"
       \/ a = "pending" /\ b \in {"resolved", "timed_out"}
       \/ a \in {"resolved", "timed_out"} /\ b = "absent"

\* C1: every tool_use_id of a non-auto-allowed request goes
\* absent -> pending -> (resolved | timed_out) -> absent: it is inserted once,
\* by the request; it leaves the table only after its slot was fulfilled or
\* its wait timed out; once the call has returned it is absent, and it never
\* becomes pending again.
C1_Lifecycle ==
    /\ [][\A id \in ToolIds : LifecycleStep(id)]_vars
    /\ [](\A id \in ToolIds : reqPc[id] = "done" => BrokerState(id) = "absent")

C1_Witness ==
    \E id \in ToolIds :
        reqPc[id] = "done" /\ wake[id] = "response" /\ id \notin DOMAIN pending

\* C2: a request_permission call that has left its wait was woken by exactly
\* one event, the first reply put into its slot or the timeout, and returns
\* that event's decision; while it is blocked it has consumed nothing; replies
\* put later stay unconsumed and never change the decision it returns.
C2_OneShot ==
    /\ [](\A id \in ToolIds :
            /\ reqPc[id] \in {"inserted", "waiting"} =>
                  wake[id] = "none" /\ result[id] = NoResult
            /\ reqPc[id] \in {"woken", "done"} /\ wake[id] # "auto" =>
                  \/ /\ wake[id] = "response"
                     /\ respHist[id] # << >>
                     /\ result[id] = respHist[id][1]
                     /\ response_queue[id] = Tail(respHist[id])
                  \/ /\ wake[id] = "timeout"
                     /\ result[id] = TimeoutResult
                     /\ response_queue[id] = respHist[id])
    /\ [][\A id \in ToolIds : result[id] # NoResult => result'[id] = result[id]]_vars

C2_Witness ==
    \E id \in ToolIds :
        /\ reqPc[id] = "done"
        /\ wake[id] = "response"
        /\ Len(respHist[id]) = 2
        /\ respHist[id][2] # result[id]

\* C3: per tool_use_id at most one respond returns true: the first respond on
\* a pending id returns true and every later one returns false, and respond
\* on an id that was never pending returns false.
C3_RespondOnce ==
    \A id \in ToolIds :
        /\ \A i, j \in 1..Len(respLog[id]) : respLog[id][i] /\ respLog[id][j] => i = j
        /\ reqPc[id] = "idle" => \A i \in 1..Len(respLog[id]) : ~respLog[id][i]

\* C4: a wait that timed out returns deny with a "timed out" reason, and once
\* the call has returned neither the pending table nor the message map holds
\* the tool_use_id.
C4_TimeoutDeny ==
    \A id \in ToolIds :
        /\ reqPc[id] \in {"woken", "done"} /\ wake[id] = "timeout" =>
              result[id] = <<"deny", "Permission request timed out">>
        /\ reqPc[id] = "done" /\ wake[id] = "timeout" =>
              /\ id \notin DOMAIN pending
              /\ \A m \in DOMAIN msg_to_tool : msg_to_tool[m] # id

C4_Witness ==
    \E id \in ToolIds :
        /\ reqPc[id] = "done"
        /\ wake[id] = "timeout"
        /\ prompts[id] = 1
        /\ respHist[id] = << >>

\* C5: every request_permission call that has started eventually returns,
\* whatever requests, responds, signals and registrations run beside it.
C5_AllReturn ==
    \A id \in ToolIds :
        reqPc[id] \in {"inserted", "waiting", "woken"} ~> reqPc[id] = "done"

C5_Witness ==
    \E id, other \in ToolIds :
        /\ reqPc[id] = "done"
        /\ wake[id] = "timeout"
        /\ respLog[id] = << >>
        /\ reqPc[other] = "waiting"
        /\ notif.pc = "register"

\* C6: at most one permission prompt is posted per tool_use_id, however often
\* the notification loop receives the id.
C6_AtMostOnePrompt == \A id \in ToolIds : prompts[id] <= 1

C6_Witness ==
    /\ notifLast = "already_notified"
    /\ nDupSignals >= 1
    /\ \E id \in ToolIds : prompts[id] = 1 /\ id \in DOMAIN pending

(***************************************************************************)
(* Claims about the operator's start, the event stream and send             *)
(***************************************************************************)
\* C7: no assistant message of the operator's initialization turn (the turn
\* that answers the seed prompt) is ever forwarded to the chat: every
\* forwarded operator message answers a later user text.
C7_NoInitTurnForwarded ==
    \A i \in DOMAIN Chat("operator") : Chat("operator")[i] # Prompt

\* the drain gave up at its timeout, the monitor was started, and the
\* operator's answer to the seed prompt reached the chat
C7_Forwarded ==
    /\ opDrain = "timeout"
    /\ \E i \in DOMAIN Chat("operator") : Chat("operator")[i] = Prompt

\* C8: for each agent the events delivered through the multiplexed stream are
\* in the order of the child's stdout lines, none twice and none out of
\* order, whatever the other agents' events do in between.
C8_PerAgentOrder ==
    \A n \in Names : \A i, j \in DOMAIN delivered[n] :
        i < j => delivered[n][i].seq < delivered[n][j].seq

\* two events of the worker and one of the operator went through the stream
C8_Witness ==
    /\ Len(delivered["w1"]) >= 2
    /\ Len(delivered["operator"]) >= 1

\* the stdin lines, over all children, that a send_to_process call wrote
LinesOfCall(call) ==
    {<<obj, i>> \in (DOMAIN proc) \X (1..(MaxSends + 2)) :
        i <= Len(proc[obj].stdin) /\ proc[obj].stdin[i].call = call}

\* C9: whenever send_to_process returned true for a routed text, exactly one
\* user line carrying that text is on the stdin of a child of that task, and
\* none on any other child.
C9_ExactlyOneLine ==
    \A c \in DOMAIN sendLog :
        sendLog[c].ret = "true" =>
            /\ Cardinality(LinesOfCall(c)) = 1
            /\ \A l \in LinesOfCall(c) :
                  /\ l[1][1] = sendLog[c].name
                  /\ proc[l[1]].stdin[l[2]].msg = sendLog[c].msg

\* a send, to a pooled live process or to one it resurrected, returned true
C9_Witness ==
    \E c \in DOMAIN sendLog :
        /\ sendLog[c].ret = "true"
        /\ sendLog[c].path \in {"direct", "resurrect"}
        /\ sendLog[c].msg = "m1"

\* a send_to_process call that found the process absent or dead and a usable
\* registry row
Resurrecting(e) == e.path = "resurrect"

\* C10 as stated: every send that finds the process absent or not live, and a
\* registry row, ends with the child started from the stored session id, the
\* message written and is_running(name) true.
C10_AlwaysResumes ==
    \A c \in DOMAIN sendLog :
        Resurrecting(sendLog[c]) =>
            /\ sendLog[c].ret = "true"
            /\ sendLog[c].running

\* the step in which the resurrected child has started
InstallStep ==
    /\ sender.pc = "starting"
    /\ sender'.pc = "drain"

\* what the call leaves behind in that step
Installed ==
    LET n == sender.name
        obj == Obj(sender.name, sender.k)
    IN /\ n \in DOMAIN processes' /\ processes'[n] = sender.k
       /\ n \in DOMAIN event_tasks' /\ event_tasks'[n] = sender.k
       /\ obj \in monitors'
       /\ proc'[obj].resume_session_id = sender.row_session
       /\ sender.row_session = registry[n].session_id
       /\ proc'[obj].stdin = <<[msg |-> sender.msg, call |-> CallNo]>>
       /\ IsRunning(n)'

\* C10, amended: when the child starts, the call resumes the row's stored
\* session id, installs the child in the pool with a monitor and writes the
\* message, is_running(name) being true then; at its return is_running(name)
\* is true unless the child has exited meanwhile; and the call returns false
\* only when the child did not start or has exited.
C10_ResumesWhenStarted ==
    /\ [][InstallStep => Installed]_vars
    /\ [](\A c \in DOMAIN sendLog :
            Resurrecting(sendLog[c]) =>
                /\ sendLog[c].started /\ sendLog[c].child_alive
                      => sendLog[c].running /\ sendLog[c].ret = "true"
                /\ sendLog[c].ret = "false"
                      => ~sendLog[c].started \/ ~sendLog[c].child_alive)

\* a send found the worker absent, resurrected it from the stored session id
\* and returned true with the worker running
C10_Witness ==
    \E c \in DOMAIN sendLog :
        /\ Resurrecting(sendLog[c])
        /\ sendLog[c].ret = "true"
        /\ sendLog[c].running
        /\ sendLog[c].row_session = "S1"

(***************************************************************************)
(* Claims about unknown tasks, the router, init events and crashes          *)
(***************************************************************************)
\* a send_to_process call is at its check of the pool, for a name that is
\* neither in the pool nor in the registry
UnknownCall ==
    /\ sender.pc = "enter"
    /\ sender.name \notin DOMAIN processes
    /\ sender.name \notin DOMAIN registry

\* C11: send_to_process for a name that is neither in the pool nor in the
\* registry raises KeyError, creates no process object and leaves the pool,
\* the monitors and the registry as they were.
C11_UnknownTask ==
    [][(UnknownCall /\ sender' # sender) =>
           /\ sendLog' = Append(sendLog, LogEntry("keyerror"))
           /\ UNCHANGED <<processes, event_tasks, monitors, proc, nProcs, registry>>]_vars

\* a send to the unknown name has raised while the operator was in the pool
C11_Witness ==
    /\ "operator" \in DOMAIN processes
    /\ \E c \in DOMAIN sendLog :
          /\ sendLog[c].name \in UnknownNames
          /\ sendLog[c].ret = "keyerror"

\* the calls, returned or still running, that carry a text to the operator
OperatorCalls(msg) ==
    {c \in DOMAIN sendLog : sendLog[c].name = "operator" /\ sendLog[c].msg = msg}

OperatorCallRunning(msg) ==
    sender.pc # "idle" /\ sender.name = "operator" /\ sender.msg = msg

\* C12: for a text routed to a task other than the operator, a KeyError of
\* the send to that task is followed at once by a send of the same text to
\* the operator, and after a send that returned true the text is never sent
\* to the operator.
C12_RouterFallback ==
    \A c \in DOMAIN sendLog :
        sendLog[c].name # "operator" =>
            /\ sendLog[c].ret = "keyerror" =>
                  IF c = Len(sendLog)
                  THEN OperatorCallRunning(sendLog[c].msg)
                  ELSE c + 1 \in OperatorCalls(sendLog[c].msg)
            /\ sendLog[c].ret = "true" =>
                  /\ OperatorCalls(sendLog[c].msg) = {}
                  /\ ~OperatorCallRunning(sendLog[c].msg)
                  /\ \A obj \in DOMAIN proc :
                        obj[1] = "operator" =>
                            \A i \in DOMAIN proc[obj].stdin :
                                proc[obj].stdin[i].msg # sendLog[c].msg

\* the text for the unknown task has reached the operator
C12_Witness ==
    \E c \in DOMAIN sendLog :
        /\ sendLog[c].name \in UnknownNames
        /\ sendLog[c].ret = "keyerror"
        /\ c + 1 \in DOMAIN sendLog
        /\ sendLog[c + 1].name = "operator"
        /\ sendLog[c + 1].ret = "true"

\* the orchestrator takes an init event off the multiplexed stream
ReceivesInit ==
    /\ mgr_queue # << >>
    /\ Head(mgr_queue).ev.kind = "init"
    /\ mgr_queue' = Tail(mgr_queue)
    /\ delivered' # delivered

\* C13: after the orchestrator has received an init event for a task that has
\* a registry row, the row's session_id is the id carried by the event, also
\* when the event is a repeated init with a new id.
C13_RegistryFollowsInit ==
    [][ReceivesInit =>
           LET item == Head(mgr_queue) IN
           item.name \in DOMAIN registry =>
               registry'[item.name].session_id = item.ev.session_id]_vars

\* the monitor that event_tasks holds for the object has read the end of its
\* child's output and has returned
MonitorSawEof(obj) ==
    /\ obj \in DOMAIN proc
    /\ obj[1] \in DOMAIN event_tasks
    /\ event_tasks[obj[1]] = obj[2]
    /\ obj \notin monitors
    /\ proc[obj].reader = "done"
    /\ proc[obj].event_queue = << >>
    /\ ~(sender.pc = "cancel" /\ sender.name = obj[1])

\* an error event for the task is on the multiplexed stream or has been
\* yielded by it
ErrorEventFor(n) ==
    \/ \E i \in DOMAIN mgr_queue :
          mgr_queue[i].name = n /\ mgr_queue[i].ev.kind = "error"
    \/ \E i \in DOMAIN delivered[n] : delivered[n][i].kind = "error"

\* C14: when a child's output has ended without a stop and its monitor has
\* seen the end, an error event for the task has been put on the multiplexed
\* stream and the process is no longer in the pool.
C14_CrashReported ==
    \A obj \in Objs :
        MonitorSawEof(obj) =>
            /\ ErrorEventFor(obj[1])
            /\ ~(obj[1] \in DOMAIN processes /\ processes[obj[1]] = obj[2])

----------------------------------------------------------------------------
(* Claims about spawn and resume                                            *)

\* spawn_process / resume_process calls that ended with a child that could not
\* be started
FailedStarts ==
    {i \in 1..Len(spawnLog) :
        spawnLog[i].k # 0 /\ ~spawnLog[i].start_ok}

\* C15: when the child process cannot be started, spawn and resume end with an
\* error, the name is not in the pool, no monitor was started and the registry
\* row keeps the session id and pid it had
C15_StartFailurePropagates ==
    \A i \in FailedStarts :
        /\ spawnLog[i].ret # "ok"
        /\ ~spawnLog[i].in_pool
        /\ ~spawnLog[i].monitored
        /\ spawnLog[i].session_after = spawnLog[i].session_before
        /\ spawnLog[i].pid_after = spawnLog[i].pid_before

\* spawn_process calls that returned a process whose child was started, for a
\* task with a registry row
GoodSpawns ==
    {i \in 1..Len(spawnLog) :
        /\ spawnLog[i].op = "spawn"
        /\ spawnLog[i].ret = "ok"
        /\ spawnLog[i].start_ok
        /\ spawnLog[i].had_row}

\* C16: when spawn_process has returned for a task with a registry row, the row
\* holds the session id the child announces in its init event and the child's
\* pid
C16_SpawnPersistsSession ==
    \A i \in GoodSpawns :
        LET obj == Obj(spawnLog[i].name, spawnLog[i].k)
        IN /\ spawnLog[i].session_after = AnnouncedSession(obj)
           /\ spawnLog[i].pid_after = PidOf(obj)

\* the name the latest spawn_process / resume_process call was made with
CalledName ==
    IF spawner.pc # "idle" THEN spawner.name
    ELSE IF spawnLog # << >> THEN spawnLog[Len(spawnLog)].name
    ELSE "none"

\* C17: a spawn_process or resume_process call for a name that is in the pool
\* ends with ValueError in the same step, creates no process object, starts no
\* child and leaves the pool, the monitors and the registry as they were
C17_DuplicateRefused ==
    [][\A n \in Names :
         (nSpawns' = nSpawns + 1 /\ n \in DOMAIN processes /\ CalledName' = n)
         => /\ Len(spawnLog') = Len(spawnLog) + 1
            /\ spawnLog'[Len(spawnLog')].ret = "valueerror"
            /\ spawner' = SpawnerIdle
            /\ UNCHANGED <<processes, event_tasks, monitors, proc, nProcs, registry>>]_vars

\* both calls have been refused for a pooled name
C17_Witness ==
    /\ \E i \in 1..Len(spawnLog) :
          spawnLog[i].op = "spawn" /\ spawnLog[i].ret = "valueerror"
    /\ \E i \in 1..Len(spawnLog) :
          spawnLog[i].op = "resume" /\ spawnLog[i].ret = "valueerror"

----------------------------------------------------------------------------
(* Claims about stop_all and all_events                                     *)

\* the step in which stop_all returns
StopAllReturns == stopAll # "done" /\ stopAll' = "done"

\* C18: when stop_all returns, no process of the pool is running and no monitor
\* task is still running
C18_AllStopped ==
    [][StopAllReturns
       => /\ \A n \in DOMAIN processes' :
                ~ProcRunning(proc'[Obj(n, processes'[n])])
          /\ monitors' = {}]_vars

\* C19: once the shutdown flag is set, all_events yields at most one more
\* event, yields none after that one, and ends
C19_LoopEndsOnShutdown ==
    /\ [](yieldsAfter <= 1 /\ (yieldsAfter = 1 => aeDone))
    /\ (shutdown ~> aeDone)

\* the loop has ended after one event yielded under the flag, with a further
\* event waiting in the queue
C19_Witness ==
    /\ shutdown
    /\ aeDone
    /\ yieldsAfter = 1
    /\ mgr_queue # << >>

----------------------------------------------------------------------------
(* Claims about the crash cleanup                                           *)

\* what a call did, given the rows it was to clear: those rows lost their pid
\* and kept everything else, they are the names returned, and every other row
\* is as it was
ClearedExactly(c, target) ==
    /\ c.returned = target
    /\ DOMAIN c.after = DOMAIN c.before
    /\ \A n \in DOMAIN c.before :
          c.after[n] = IF n \in target THEN [c.before[n] EXCEPT !.pid = NoPid]
                       ELSE c.before[n]

\* the rows outside the pool that record a pid outside the given set
RowsWithPidNotIn(c, pids) ==
    {n \in DOMAIN c.before :
        /\ n \notin c.pool
        /\ c.before[n].pid # NoPid
        /\ c.before[n].pid \notin pids}

----------------------------------------------------------------------------
(* Claims about the daemon's startup                                        *)

\* C21: a daemon that finds the PID file of a running daemon exits with an
\* error and leaves the file as it is, and a daemon that finds the file a
\* killed daemon left behind starts
C21_Singleton ==
    \A d \in Daemons :
        /\ daemon[d].found = "live"
           => daemon[d].pc = "refused" /\ pidFile # PidText(DaemonPid(d))
        /\ daemon[d].found = "stale" => daemon[d].pc # "refused"

----------------------------------------------------------------------------
(* Claims about the task operations                                         *)

\* C22: in every state, a registry row with status paused has no pid
C22_PausedHasNoPid ==
    \A n \in DOMAIN registry :
        registry[n].status = "paused" => registry[n].pid = NoPid

\* the creations that ended after a step past the pending marker had failed
FailedCreates == {i \in 1..Len(createLog) : createLog[i].failed # "none"}

\* C23: when the creation of a worker fails at a step after the pending marker
\* was written (the chat thread cannot be created, the child cannot be
\* started, spawn_process raises), then at the end of the call no chat thread
\* is open for the task, a worktree task's directory does not exist, and the
\* registry has no row for the task
C23_FailedCreateRolledBack ==
    \A i \in FailedCreates :
        /\ createLog[i].thread # "open"
        /\ createLog[i].kind = "worktree" => ~createLog[i].dir
        /\ ~createLog[i].has_row

\* C24: at every moment of a creation, crash points included, an open chat
\* thread of the task has a pending or completed marker in the task's
\* directory; the completed marker replaces a pending one, and only when the
\* thread exists
MarkerCoversThread == thread = "open" => marker \in {"pending", "complete"}

MarkerCompletedAfterThread ==
    marker' = "complete" /\ marker # "complete" => marker = "pending" /\ thread = "open"

FileWhole == regFile # NoFile /\ RegContent \in Complete

\* every read that has ended got a whole document, one the file held at some
\* moment of the read
ReadsWhole ==
    \A i \in 1..Len(readLog) :
        readLog[i].got \in Complete /\ readLog[i].got \in readLog[i].during

\* every write whose rename failed left the content it found, and no write
\* that has ended left its temporary file
FailedWritesUndone ==
    /\ \A i \in 1..Len(writeLog) :
           writeLog[i].ret = "oserror" => writeLog[i].after = writeLog[i].before
    /\ fwriter.pc = "idle" => tmpFile = NoFile

AutoAllowed == {id \in ToolIds : wake[id] = "auto"}

\* nothing of the broker or of the notification loop knows the id
Untracked(id) ==
    /\ id \notin DOMAIN pending
    /\ \A i \in 1..Len(notification_queue) : notification_queue[i][1] # id
    /\ \A m \in DOMAIN msg_to_tool : msg_to_tool[m] # id
    /\ notif.pc # "idle" => notif.id # id
    /\ prompts[id] = 0

\* C26 as stated: a request for a tool of the auto_allow set returns
\* (allow, "auto") at once, and no pending entry, no notification and no chat
\* prompt is ever made for it
C26_AutoAllowReasonAuto ==
    \A id \in AutoAllowed :
        reqPc[id] = "done" /\ result[id] = <<"allow", "auto">> /\ Untracked(id)

\* C26, amended: a request for a tool of the auto_allow set returns allow with
\* the reason "Auto-allowed: <tool_name>" at once, and no pending entry, no
\* notification and no chat prompt is ever made for it; no pending entry is
\* for a tool of the set
C26_AutoAllow ==
    /\ \A id \in AutoAllowed :
           /\ reqPc[id] = "done"
           /\ \E t \in auto_allow : result[id] = <<"allow", "Auto-allowed: " \o t>>
           /\ Untracked(id)
    /\ \A id \in DOMAIN pending : pending[id].tool_name \notin auto_allow

\* one request was auto-allowed while the other one got its prompt
C26_Witness ==
    \E id, other \in ToolIds :
        /\ wake[id] = "auto"
        /\ prompts[other] = 1
        /\ notifLast = "posted"

\* no thread that waits on a reply slot holds the lock, and whoever holds it
\* is inside one of the with blocks
LockNotHeldInWait ==
    /\ \A q \in ReqThreads : thPc[q].pc = "waiting" => lock # q
    /\ lock # Free => thPc[lock].pc \in {"inserting", "cleaning", "locked"}

\* C27: the broker's lock is never held by a request that waits on its reply
\* slot; every thread that calls respond, register_telegram_msg or get_pending
\* gets the lock, and every request that waits goes on to return
C27_LockNeverHeldAcrossWait ==
    /\ [](LockNotHeldInWait)
    /\ \A c \in Callers : (thPc[c].pc = "want") ~> (thPc[c].pc = "locked")
    /\ \A q \in ReqThreads : (thPc[q].pc = "waiting") ~> (thPc[q].pc = "done")

\* respond holds the lock for the id of a request that is waiting on its slot
C27_Witness ==
    \E q \in ReqThreads, c \in Callers :
        /\ thPc[q].pc = "waiting"
        /\ thPc[c].pc = "locked" /\ thPc[c].op = "respond" /\ thPc[c].id = IdOf(q)
        /\ lock = c

\* a notification for the id waits in the loop's queue
Queued(id) == \E i \in 1..Len(notification_queue) : notification_queue[i][1] = id

\* the step from line 106 to the wait puts (tool_use_id, session_id) at the
\* end of the loop's queue
SignalEnqueues ==
    \A id \in ToolIds :
        reqPc[id] = "inserted" /\ reqPc'[id] = "waiting" =>
            notification_queue' =
                Append(notification_queue, <<id, pending[id].session_id>>)

\* C28: the loop is installed in the broker before the HTTP server takes its
\* first request, so every request that is not auto-allowed puts its
\* (tool_use_id, session_id) on the loop's queue, and the notification loop
\* takes every queued notification
C28_EveryRequestNotified ==
    /\ [](serving => loop)
    /\ [][SignalEnqueues]_vars
    /\ \A id \in ToolIds : Queued(id) ~> ~Queued(id)

\* the notification loop has taken the notification of a request that waits
C28_Witness ==
    \E id \in ToolIds :
        /\ reqPc[id] = "waiting"
        /\ ~Queued(id)
        /\ notif.pc = "send" /\ notif.id = id

(***************************************************************************)
(* Claims about the permission hook                                        *)
(***************************************************************************)
\* the hook of a managed session has posted its request and has exited
HookAnswered == hook.pc = "exited" /\ hook.managed /\ hook.posted

\* C29: in a managed session, when the hook's request cannot reach the broker
\* (requests.post raises ConnectionError), the hook writes the decision allow
\* and exits with code 0
C29_UnreachableAllows ==
    HookAnswered /\ IsConnectionError(hook.http) =>
        hook.out.decision = "allow" /\ hook.exit = 0

C29_Witness ==
    /\ HookAnswered
    /\ hook.http = "connection_error"
    /\ hook.out = PermissionResponse("allow", "Permission server not running")

\* C30: when the body of the server's answer carries a decision other than
\* allow or deny, the decision the hook writes for the agent is deny
C30_MalformedDenied ==
    HookAnswered /\ hook.http = "ok" /\ hook.body \notin {"allow", "deny"} =>
        hook.out.decision = "deny"

(***************************************************************************)
(* Claims about two daemons starting at once                               *)
(***************************************************************************)
\* C39: when two daemons start at the same time, whatever the order of their
\* steps of check_singleton (does the file exist, read and probe, write the
\* own pid), at most one of them is past the check
C39_AtMostOneDaemon == Cardinality(RunningDaemons) <= 1

(***************************************************************************)
(* Claims about the broker's message map                                   *)
(***************************************************************************)
\* C35: at every moment each message id of the broker's reverse map stands for
\* a tool_use_id that is pending, and that pending entry carries the message
\* id: the mapping is recorded only for a pending id and goes away with the
\* entry when the request returns
C35_MapOnlyPending ==
    \A m \in DOMAIN msg_to_tool :
        /\ msg_to_tool[m] \in DOMAIN pending
        /\ pending[msg_to_tool[m]].telegram_msg_id = m

\* one request has returned after its prompt was registered, and the other
\* one's registered mapping is about to be removed by its finally block
C35_Witness ==
    \E id, other \in ToolIds :
        /\ reqPc[id] = "done" /\ prompts[id] = 1 /\ wake[id] \in {"response", "timeout"}
        /\ reqPc[other] = "woken"
        /\ \E m \in DOMAIN msg_to_tool : msg_to_tool[m] = other

SupervisorAtRest ==
    /\ sender.pc = "idle"
    /\ spawner.pc = "idle"
    /\ pauser.pc = "idle"
    /\ stopAll # "running"
    /\ \A n \in Names : stopPc[n].pc \in {"none", "done", "raised"}

\* the operator is pooled and its init turn has not been drained yet
OperatorInInitTurn == opPc \in {"sleeping", "draining"}

\* the names whose entries in the two maps have to agree
NamesToAgree == IF OperatorInInitTurn THEN Names \ {"operator"} ELSE Names

\* C40: whenever no supervisor operation is under way, the names with a
\* monitor task are the names in the pool, the operator in its init turn
\* excepted; no monitor entry is kept for a name that has left the pool
C40_MonitorsMatchPool ==
    SupervisorAtRest =>
        (DOMAIN event_tasks) \cap NamesToAgree = (DOMAIN processes) \cap NamesToAgree

(***************************************************************************)
(* Claims about a monitor that fails                                       *)
(***************************************************************************)
\* the error events of the task on the multiplexed stream or yielded by it
ErrorEventsOf(n) ==
    Cardinality({i \in DOMAIN mgr_queue :
                    mgr_queue[i].name = n /\ mgr_queue[i].ev.kind = "error"})
    + Cardinality({i \in DOMAIN delivered[n] : delivered[n][i].kind = "error"})

\* the monitors of the task that ended in their except branch
CrashedOf(n) == {obj \in crashed : obj[1] = n}

\* a monitor goes into its except branch in this step
MonitorCrashes(obj) == obj \notin crashed /\ obj \in crashed'

\* C34: a monitor that ends with an error puts exactly one error event, under
\* its task's name, on the multiplexed stream and the task leaves the pool;
\* a monitor that is cancelled puts none
C34_OneErrorPerCrash ==
    /\ [](\A n \in Names : ErrorEventsOf(n) = Cardinality(CrashedOf(n)))
    /\ [][\A obj \in Objs :
            MonitorCrashes(obj) =>
                /\ obj[1] \notin DOMAIN processes'
                /\ Len(mgr_queue') = Len(mgr_queue) + 1
                /\ mgr_queue'[Len(mgr_queue')] = [name |-> obj[1], ev |-> ErrorEvent]]_vars

\* one monitor has failed and its error event has been yielded while
\* stop_process is cancelling the running monitor of another task
C34_Witness ==
    \E obj \in crashed, n \in Names :
        /\ n # obj[1]
        /\ stopPc[n].pc = "cancelling"
        /\ \E i \in DOMAIN delivered[obj[1]] : delivered[obj[1]][i].kind = "error"

(***************************************************************************)
(* Claims about the children of one task                                   *)
(***************************************************************************)
\* C38: whatever the interleaving of send (with resurrection), spawn and
\* resume, a task never has two live children at once
C38_OneLiveChild == \A n \in Names : Cardinality(LiveChildren(n)) <= 1

(***************************************************************************)
(* Claims about ClaudeProcess.start and stop                               *)
(***************************************************************************)
\* C33: once start() has returned with success, the child's first init event
\* has arrived and the value returned is the session id of that event
C33_StartReturnsSession ==
    \A obj \in DOMAIN proc :
        proc[obj].started =>
            /\ proc[obj].init_sent
            /\ StartResult(TRUE) = proc[obj].session_id

\* C32: stop() on a process that was never started or has been stopped
\* returns True and changes nothing, however often it is called
C32_StopIdempotent ==
    /\ [](\A i \in 1..Len(termLog) : termLog[i].ret /\ termLog[i].same)
    /\ [][Len(termLog') > Len(termLog) =>
            UNCHANGED <<supVars, registry, extVars>>]_vars

\* stop() has been called twice on a process that a stop had ended and once on
\* one that never ran
C32_Witness ==
    /\ Len(termLog) = MaxTerminates
    /\ \E i, j, k \in 1..Len(termLog) :
           /\ i < j
           /\ termLog[i].obj = termLog[j].obj
           /\ termLog[i].stopped_before
           /\ ~termLog[k].stopped_before

(***************************************************************************)
(* Claims about the drain of the operator's init turn                      *)
(***************************************************************************)
\* the operator's events the drain has left: those yielded by the stream,
\* those on the stream and those still on the process's own queue, in this
\* order
OperatorStream ==
    LET q == SelectSeq(mgr_queue, LAMBDA item : item.name = "operator")
    IN delivered["operator"] \o [i \in 1..Len(q) |-> q[i].ev]
         \o SelectSeq(proc[OperatorObj].event_queue, LAMBDA ev : ev.kind # "eof")

\* C36: when the drain of the init turn has ended, it has consumed the
\* operator's events up to and including the first result event (or all of
\* them, when the output ended before a result), and the events that follow
\* are forwarded by the monitor in the order the child wrote them
C36_DrainToFirstResult ==
    (opPc = "running" /\ opDrain # "none") =>
        /\ opDrain \in {"result", "eof"}
        /\ \A i, j \in DOMAIN OperatorStream :
               i < j => OperatorStream[i].seq < OperatorStream[j].seq

(***************************************************************************)
(* Claims about the poll cursor                                            *)
(***************************************************************************)
\* the updates the stored offset has passed
Passed == {u \in 1..MaxUpdates : u < cfgOffset}

\* the update is in the poller's hands, stored and about to be yielded
AboutToYield(u) == poller.pc = "stored" /\ poller.cur = u

\* C31: whatever stops and restarts of the daemon there are, no message or
\* callback is yielded to the orchestrator twice, and each one the stored
\* offset has passed has been yielded or is about to be
C31_ExactlyOnce ==
    /\ \A i, j \in DOMAIN handed : i # j => handed[i] # handed[j]
    /\ \A u \in Passed :
           updates[u] # "topic" =>
               (\E i \in DOMAIN handed : handed[i] = u) \/ AboutToYield(u)

====
